---------------------------- MODULE Spec2Model ----------------------------
(***************************************************************************)
(* Blue/green deployment control plane of node-elasticsearch.              *)
(*                                                                         *)
(* The state is the search cluster as the control plane sees it (indices,  *)
(* their documents, alias bindings), the in-memory session map of          *)
(* ProductBatchSessionManager, and the handler invocations in flight.      *)
(* Every async handler is cut at its awaits: one action is "the cluster    *)
(* answers the pending request of call c and the handler runs on to its    *)
(* next await (or to its return/throw)".  Code between two awaits runs     *)
(* atomically, as on the Node.js event loop.                               *)
(***************************************************************************)
EXTENDS Integers, Sequences, FiniteSets, TLC

(***************************************************************************)
(* Bounds of the model.                                                    *)
(***************************************************************************)
MaxTime     == 1   \* long pauses (clock steps) in one behaviour
MaxOps      == 3   \* handler invocations started in one behaviour
MaxBatchLen == 2   \* documents in one processBatch request
MaxDeploys  == 5   \* deployment-manager invocations started in one behaviour
MaxIndexerOps == 3 \* indexer invocations (initialize, deploy) in one behaviour
MaxSequence == 4   \* deployment-manager invocations in one sequence of calls
MaxCleanupOps == 3 \* deployment-manager invocations beside and around one cleanup
MaxWaitOps == 2    \* waitForIndexReady and the requests made beside it
MaxOverlapOps == 2 \* deployNewIndex invocations that may overlap
MaxClientBatches == 5 \* batches the client's stream yields in one run

\* if (documents.length > 1000): the process route's limit
MaxProductsPerBatch == 1000

\* private readonly sessionTimeout = 3600000 (milliseconds)
SessionTimeout == 3600000

\* The clock is advanced by pauses longer than the session timeout; what happens
\* between two pauses falls into the same clock second.
ClockStep == SessionTimeout + 1

Aliases    == {"products"}
\* An alias of another deployment whose name is "products", the separator and
\* more text.  No operation of the model is called on it.
OtherAlias == "products-test"
Colors     == {"blue", "green"}
CallIds    == {"c1", "c2"}
SessionIds == {"s1", "s2"}
Strategies == {"safe", "auto-swap"}

(***************************************************************************)
(* Index names.  `${alias}${sep}${color}${sep}${timestamp}` is kept as its *)
(* parts; the timestamp is a fixed-width digit string, so its string order *)
(* is the numeric order of ts.                                             *)
(***************************************************************************)
NoIndex == [alias |-> "", sep |-> "", color |-> "", ts |-> 0]

IndexName(alias, sep, color, ts) ==
    [alias |-> alias, sep |-> sep, color |-> color, ts |-> ts]

\* `${alias}_${targetColor}_${timestamp}`
SessionIndexName(alias, color, ts) == IndexName(alias, "_", color, ts)

\* `${alias}-${targetColor}-${timestamp}`
DeployIndexName(alias, color, ts) == IndexName(alias, "-", color, ts)

\* String order of two colour words: "blue" < "green" ('b' < 'g').
ColorRank(color) == IF color = "blue" THEN 0 ELSE 1

\* String order of the separators: '-' (0x2D) < '_' (0x5F).
SepRank(sep) == IF sep = "-" THEN 0 ELSE 1

\* JavaScript's default Array.prototype.sort order on two names: the rendered
\* strings are compared code unit by code unit.  For two names of one alias the
\* separator decides first, then the colour word, then the timestamp.  A name
\* of OtherAlias and a name of its prefix alias agree up to the prefix; there
\* the one continues with '-' and the other with its separator, and after two
\* '-' the one continues with 't' and the other with 'b' or 'g'.
NameLess(a, b) ==
    IF a.alias = b.alias
      THEN \/ SepRank(a.sep) < SepRank(b.sep)
           \/ /\ a.sep = b.sep
              /\ \/ ColorRank(a.color) < ColorRank(b.color)
                 \/ a.color = b.color /\ a.ts < b.ts
      ELSE IF b.alias = OtherAlias THEN a.sep = "-" ELSE b.sep = "_"

\* names.sort().reverse()[0]
SortReverseFirst(names) ==
    CHOOSE n \in names : \A m \in names \ {n} : NameLess(m, n)

\* getNextColor: currentColor === 'blue' ? 'green' : 'blue'
NextColor(currentColor) == IF currentColor = "blue" THEN "green" ELSE "blue"

\* activeIndex.includes('_blue_') ? 'blue' : activeIndex.includes('_green_') ? 'green' : undefined
SessionColorOf(name) ==
    IF name.sep = "_" /\ name.color = "blue" THEN "blue"
    ELSE IF name.sep = "_" /\ name.color = "green" THEN "green"
    ELSE "none"

\* extractColorFromIndex: includes('-blue-') / includes('-green-')
ExtractColorFromIndex(name) ==
    IF name.sep = "-" /\ name.color = "blue" THEN "blue"
    ELSE IF name.sep = "-" /\ name.color = "green" THEN "green"
    ELSE "none"

\* The alias as the words between its separators.
AliasWords(alias) ==
    IF alias = OtherAlias THEN <<"products", "-", "test">> ELSE <<alias>>

\* The rendered index name up to its timestamp, word by word.
NameWords(name) == AliasWords(name.alias) \o <<name.sep, name.color, name.sep>>

\* A wildcard pattern `${prefix}*` of indices.get matches the names that start
\* with the prefix.
StartsWith(words, prefix) ==
    Len(words) >= Len(prefix) /\ SubSeq(words, 1, Len(prefix)) = prefix

\* indices.get({ index: `${alias}-*` }): the names that start with alias + "-"
MatchesAliasDash(name, alias) ==
    StartsWith(NameWords(name), AliasWords(alias) \o <<"-">>)

\* indices.get({ index: `${alias}-${color}-*` })
MatchesAliasColorDash(name, alias, color) ==
    StartsWith(NameWords(name), AliasWords(alias) \o <<"-", color, "-">>)

(***************************************************************************)
(* Documents and document ids.                                             *)
(***************************************************************************)
NoId == "none"

\* A product as far as the control plane reads it: id?: string and RecordId
\* (rid is <<>> when the field is missing, <<n>> when it is the number n).
Docs == { [id |-> "1",  rid |-> <<>>],
          [id |-> NoId, rid |-> <<1>>],
          [id |-> NoId, rid |-> <<>>] }

\* Number.prototype.toString() of a RecordId in 1..9.
RecordIdToString(n) == <<"1", "2", "3", "4", "5", "6", "7", "8", "9">>[n]

\* `doc_${sessionId}_${totalBatches + 1}_${index}_${Date.now()}`
GeneratedId(sid, batchNo, index, time) ==
    <<"doc", sid, batchNo, index, time>>

\* doc.id || doc.RecordId?.toString() || generated; ids are kept as tuples
\* <<"id", string>> so that a given and a generated id are comparable values.
NormalizeId(doc, sid, batchNo, index, time) ==
    IF doc.id # NoId THEN <<"id", doc.id>>
    ELSE IF doc.rid # <<>> THEN <<"id", RecordIdToString(doc.rid[1])>>
    ELSE GeneratedId(sid, batchNo, index, time)

\* processedDocuments.map(doc => doc.id)
NormalizeIds(docs, sid, batchNo, time) ==
    [i \in 1..Len(docs) |-> NormalizeId(docs[i], sid, batchNo, i - 1, time)]

Range(seq) == { seq[i] : i \in 1..Len(seq) }

DuplicateIdsDetected_Never(ids) == FALSE

\* ids.length !== new Set(ids).size
DuplicateIdsDetected(ids) == Len(ids) # Cardinality(Range(ids))

Batches == UNION { [1..n -> Docs] : n \in 1..MaxBatchLen }

(***************************************************************************)
(* State.                                                                  *)
(***************************************************************************)
VARIABLES
    now,        \* wall clock (Date.now()), in milliseconds
    indices,    \* names of the indices that exist in the cluster
    indexDocs,  \* index name -> set of document ids it holds
    aliases,    \* alias -> set of index names the alias is bound to
    sessMap,    \* keys of ProductBatchSessionManager.sessions
    sess,       \* session id -> the BatchSession object (kept after removal:
                \* a handler in flight still holds the reference)
    calls,      \* call slot -> the handler invocation running in it
    ops,        \* handler invocations started so far
    client      \* the reference batch client (MemoryEfficientBatchProcessor)

vars == <<now, indices, indexDocs, aliases, sessMap, sess, calls, ops, client>>

NoSession ==
    [alias |-> "", targetIndex |-> NoIndex, targetColor |-> "", strategy |-> "",
     lastBatchAt |-> 0,
     totalBatches |-> 0, processedBatches |-> 0, totalDocuments |-> 0,
     processedDocuments |-> 0, failedDocuments |-> 0,
     status |-> "absent", errors |-> <<>>,
     submitted |-> {}]   \* history: the _id values of the bulk requests answered

\* What a handler returned: a DeploymentState or a BatchProcessResult.
NoRet ==
    [deploymentStatus |-> "", activeIndex |-> NoIndex, activeColor |-> "none",
     stagingIndex |-> NoIndex, stagingColor |-> "none",
     batchNumber |-> 0, successful |-> 0, failed |-> 0, sessionStatus |-> ""]

IdleCall ==
    [op |-> "none", pc |-> "idle", sid |-> "", alias |-> "", strategy |-> "",
     ts |-> 0, color |-> "none", target |-> NoIndex, docs |-> <<>>, ids |-> <<>>,
     batchNo |-> 0, existing |-> {}, todo |-> {}, deleteOld |-> FALSE, count |-> 0,
     staging |-> NoIndex,
     alias0 |-> {}, indices0 |-> {}, outcome |-> "none", err |-> "none",
     failedAt |-> "none", resp |-> <<>>, ret |-> NoRet,
     timeout |-> 0, checkInterval |-> 0, expected |-> <<>>, health |-> "none"]

\* The batch client before its stream has delivered anything: no batch task
\* exists (processBatchWithConcurrencyControl was not called), and
\* concurrentBatches = 0.
IdleClient ==
    [task |-> [k \in 1..MaxClientBatches |-> "none"],
     concurrentBatches |-> 0, stream |-> "open"]

\* The index an earlier run of the control plane may have left bound to the
\* alias (a session completed with auto-swap; sessions do not survive a restart).
OldIndex == SessionIndexName("products", "blue", 0)

\* The cluster as the control plane finds it: empty, or holding OldIndex.
InitialClusters ==
    { [indices |-> {}, aliases |-> [a \in Aliases |-> {}]],
      [indices |-> {OldIndex}, aliases |-> [a \in Aliases |-> {OldIndex}]] }

Init ==
    /\ now = ClockStep
    /\ \E cl \in InitialClusters :
          /\ indices = cl.indices
          /\ aliases = cl.aliases
    /\ indexDocs = [n \in indices |-> {}]
    /\ sessMap = {}
    /\ sess = [s \in SessionIds |-> NoSession]
    /\ calls = [c \in CallIds |-> IdleCall]
    /\ ops = 0
    /\ client = IdleClient

\* The invocation in slot c is between its entry and its return or throw.
InProgress(c) == calls[c].pc \notin {"idle", "done"}

\* A request can enter slot c: the slots are interchangeable, so a request
\* takes the first one that holds no invocation in flight.
CanStart(c) ==
    /\ ~InProgress(c)
    /\ ops < MaxOps
    /\ \A d \in CallIds : (d # c /\ ~InProgress(d)) => c = "c1"

\* The invocation `call` returns `ret` (its working data is dropped).
Returned(call, ret) ==
    [call EXCEPT !.pc = "done", !.outcome = "ok", !.ret = ret,
                 !.docs = <<>>, !.ids = <<>>, !.existing = {}, !.todo = {}]

\* The invocation `call` throws `err`; `at` is the await (or check) it failed at.
\* The arguments (docs) stay with the record: the caller still has them.
Thrown(call, err, at) ==
    [call EXCEPT !.pc = "done", !.outcome = "error", !.err = err, !.failedAt = at,
                 !.ids = <<>>, !.existing = {}, !.todo = {}]

(***************************************************************************)
(* The cluster's operations, as functions of its state.                    *)
(***************************************************************************)
\* indices.create on a name that does not exist yet.
IndicesAfterCreate(name) == indices \cup {name}
DocsAfterCreate(name) ==
    [n \in indices \cup {name} |-> IF n \in indices THEN indexDocs[n] ELSE {}]

\* A delete request that is answered but leaves the index in place.
IndicesAfterDelete_Keeps(name) == indices

\* indices.delete: the index goes, with its documents and its alias bindings.
IndicesAfterDelete(name) == indices \ {name}
DocsAfterDelete(name) == [n \in indices \ {name} |-> indexDocs[n]]
AliasesAfterDelete(name) == [a \in Aliases |-> aliases[a] \ {name}]

\* indices.updateAliases applies the whole action list in one cluster-state
\* update: every remove, then every add.  An action on a missing index makes
\* the request fail as a whole.
UpdateAliasesValid(actions) == (actions.remove \cup actions.add) \subseteq indices
AliasesAfterUpdate(alias, actions) ==
    [aliases EXCEPT ![alias] = (@ \ actions.remove) \cup actions.add]

\* client.count({ index })
CountOf(name) == Cardinality(indexDocs[name])

(***************************************************************************)
(* ProductBatchSessionManager.startBatchSession                            *)
(***************************************************************************)
\* generateSessionId: an id no session has had (time plus random suffix).
FreshSessionId ==
    CHOOSE s \in SessionIds :
        /\ sess[s].status = "absent"
        /\ \A d \in CallIds : ~(calls[d].op = "start" /\ InProgress(d) /\ calls[d].sid = s)

HasFreshSessionId ==
    \E s \in SessionIds :
        /\ sess[s].status = "absent"
        /\ \A d \in CallIds : ~(calls[d].op = "start" /\ InProgress(d) /\ calls[d].sid = s)

\* Entry: the session id and the timestamp are taken, then the handler awaits
\* getCurrentDeploymentState.
StartEntry(c, alias, strategy) ==
    /\ CanStart(c)
    /\ HasFreshSessionId
    /\ calls' = [calls EXCEPT ![c] =
                    [IdleCall EXCEPT !.op = "start", !.pc = "start_state",
                                     !.sid = FreshSessionId, !.alias = alias,
                                     !.strategy = strategy, !.ts = now,
                                     !.alias0 = aliases[alias], !.indices0 = indices]]
    /\ ops' = ops + 1 /\ UNCHANGED client
    /\ UNCHANGED <<now, indices, indexDocs, aliases, sessMap, sess>>

\* getCurrentDeploymentState: { activeColor, activeIndex } of the alias; every
\* error is caught and answered with "no active index".
CurrentDeploymentStates(alias) ==
    { [activeIndex |-> n, activeColor |-> SessionColorOf(n)] : n \in aliases[alias] }
    \cup { [activeIndex |-> NoIndex, activeColor |-> "none"] : x \in
              IF aliases[alias] = {} THEN {1} ELSE {} }

FailedDeploymentState == [activeIndex |-> NoIndex, activeColor |-> "none"]

\* The cluster answers the alias lookup; target colour and index name follow.
StartState(c) ==
    /\ calls[c].pc = "start_state"
    /\ \E st \in CurrentDeploymentStates(calls[c].alias) \cup {FailedDeploymentState} :
          LET targetColor == NextColor(st.activeColor)
          IN  calls' = [calls EXCEPT ![c].pc = "start_create",
                                     ![c].color = targetColor,
                                     ![c].target = SessionIndexName(calls[c].alias,
                                                       targetColor, calls[c].ts)]
    /\ UNCHANGED <<now, indices, indexDocs, aliases, sessMap, sess, ops, client>>

NewSession(call, time) ==
    [NoSession EXCEPT !.alias = call.alias, !.targetIndex = call.target,
                      !.targetColor = call.color, !.strategy = call.strategy,
                      !.lastBatchAt = time,
                      !.status = "active"]

\* productIndexMapper.createIndexAsync(targetIndex), then sessions.set.
StartCreate(c) ==
    /\ calls[c].pc = "start_create"
    /\ LET call == calls[c] IN
       \/ \* the index exists already, or the create request fails
          /\ calls' = [calls EXCEPT ![c] = Thrown(call, "create_index", "create")]
          /\ UNCHANGED <<indices, indexDocs, aliases, sessMap, sess>>
       \/ /\ call.target \notin indices
          /\ indices' = IndicesAfterCreate(call.target)
          /\ indexDocs' = DocsAfterCreate(call.target)
          /\ sess' = [sess EXCEPT ![call.sid] = NewSession(call, now)]
          /\ sessMap' = sessMap \cup {call.sid}
          /\ calls' = [calls EXCEPT ![c] = Returned(call, NoRet)]
          /\ UNCHANGED aliases
    /\ UNCHANGED <<now, ops, client>>

(***************************************************************************)
(* ProductBatchSessionManager.processBatch                                 *)
(***************************************************************************)
ErrorEntry(batchNumber, phase, kind) ==
    [batchNumber |-> batchNumber, phase |-> phase, kind |-> kind]

\* A catch block that would also count the failed batch.
WithBatchError_Counts(session) ==
    [session EXCEPT !.totalBatches = @ + 1, !.errors =
        Append(@, ErrorEntry(session.totalBatches + 1, "none", "batch"))]

\* The catch block of processBatch: one entry { batchNumber: totalBatches + 1 }.
WithBatchError(session) ==
    [session EXCEPT !.errors =
        Append(@, ErrorEntry(session.totalBatches + 1, "none", "batch"))]

\* Entry, up to `await client.bulk`: lookup, status check, id normalisation and
\* the uniqueness check.  ts is the time the request arrived.
ProcessEntry(c, sid, docs) ==
    /\ CanStart(c)
    /\ ops' = ops + 1 /\ UNCHANGED client
    /\ LET call    == [IdleCall EXCEPT !.op = "processBatch", !.sid = sid, !.docs = docs,
                                        !.ts = now]
           session == sess[sid]
           batchNo == session.totalBatches + 1
           ids     == NormalizeIds(docs, sid, batchNo, now)
       IN  IF sid \notin sessMap
             THEN /\ calls' = [calls EXCEPT ![c] = Thrown(call, "not_found", "lookup")]
                  /\ UNCHANGED sess
           ELSE IF session.status # "active"
             THEN /\ calls' = [calls EXCEPT ![c] = Thrown(call, "not_active", "status")]
                  /\ UNCHANGED sess
           ELSE IF DuplicateIdsDetected(ids)
             THEN /\ calls' = [calls EXCEPT ![c] = Thrown(call, "duplicate_ids", "ids")]
                  /\ sess' = [sess EXCEPT ![sid] = WithBatchError(session)]
           ELSE   /\ calls' = [calls EXCEPT ![c] =
                                [call EXCEPT !.pc = "bulk", !.ids = ids,
                                             !.batchNo = batchNo,
                                             !.target = session.targetIndex]]
                  /\ UNCHANGED sess
    /\ UNCHANGED <<now, indices, indexDocs, aliases, sessMap>>

\* What the cluster may answer for one bulk item.
ItemOutcomes == {"ok", "error", "odd"}

\* The bulk item of one document: indexed (201 created, 200 overwritten),
\* rejected with an error payload, or an item without a usable status.
BulkItem(outcome, id, held) ==
    IF outcome = "ok" THEN [status |-> IF id \in held THEN 200 ELSE 201, error |-> FALSE]
    ELSE IF outcome = "error" THEN [status |-> 400, error |-> TRUE]
    ELSE [status |-> 0, error |-> FALSE]

\* A test that would take every item without an error payload as indexed.
ItemSucceeded_AnyStatus(item) == ~item.error

\* indexOperation.error ? failed : (status === 200 || status === 201) ? successful : failed
ItemSucceeded(item) == ~item.error /\ item.status \in {200, 201}

ItemErrorEntry(item) ==
    ErrorEntry(0, "none", IF item.error THEN "item_error" ELSE "unexpected_status")

RECURSIVE ItemErrors(_)
ItemErrors(items) ==
    IF items = <<>> THEN <<>>
    ELSE (IF ItemSucceeded(Head(items)) THEN <<>> ELSE <<ItemErrorEntry(Head(items))>>)
         \o ItemErrors(Tail(items))

\* processBulkResponse(response, documents)
ProcessBulkResponse(items) ==
    [successful |-> Cardinality({i \in 1..Len(items) : ItemSucceeded(items[i])}),
     failed     |-> Cardinality({i \in 1..Len(items) : ~ItemSucceeded(items[i])}),
     errors     |-> ItemErrors(items)]

SessionAfterBatch_TotalSuccessful(session, nDocs, result, time) ==
    [session EXCEPT !.totalBatches = @ + 1, !.processedBatches = @ + 1,
                    !.totalDocuments = @ + result.successful,
                    !.processedDocuments = @ + result.successful,
                    !.failedDocuments = @ + result.failed,
                    !.lastBatchAt = time, !.errors = @ \o result.errors]

\* "Update session": the counter updates after the bulk call has returned.
SessionAfterBatch(session, nDocs, result, time) ==
    [session EXCEPT !.totalBatches = @ + 1, !.processedBatches = @ + 1,
                    !.totalDocuments = @ + nDocs,
                    !.processedDocuments = @ + result.successful,
                    !.failedDocuments = @ + result.failed,
                    !.lastBatchAt = time, !.errors = @ \o result.errors]

\* The cluster answers the bulk request and the handler runs to its end.  A bulk
\* on an index that is gone either re-creates it (automatic index creation) or
\* fails every item.
ProcessBulk(c) ==
    /\ calls[c].pc = "bulk"
    /\ LET call    == calls[c]
           session == sess[call.sid]
           n       == Len(call.ids)
           exists  == call.target \in indices
       IN
       \/ \* transport or serialisation failure: the catch block
          /\ sess' = [sess EXCEPT ![call.sid] = WithBatchError(session)]
          /\ calls' = [calls EXCEPT ![c] = Thrown(call, "bulk", "bulk")]
          /\ UNCHANGED <<indices, indexDocs>>
       \/ \E auto \in (IF exists THEN {FALSE} ELSE BOOLEAN) :
          \E outcomes \in [1..n -> ItemOutcomes] :
             /\ (~exists /\ ~auto) => \A i \in 1..n : outcomes[i] = "error"
             /\ LET held   == IF exists THEN indexDocs[call.target] ELSE {}
                    items  == [i \in 1..n |-> BulkItem(outcomes[i], call.ids[i], held)]
                    added  == {call.ids[i] : i \in {j \in 1..n : outcomes[j] = "ok"}}
                    result == ProcessBulkResponse(items)
                    after  == [SessionAfterBatch(session, Len(call.docs), result, now)
                                 EXCEPT !.submitted = @ \cup Range(call.ids)]
                IN  /\ IF exists \/ auto
                         THEN /\ indices' = indices \cup {call.target}
                              /\ indexDocs' = [m \in indices \cup {call.target} |->
                                                 IF m = call.target THEN held \cup added
                                                 ELSE indexDocs[m]]
                         ELSE UNCHANGED <<indices, indexDocs>>
                    /\ sess' = [sess EXCEPT ![call.sid] = after]
                    /\ calls' = [calls EXCEPT ![c] =
                                   Returned([call EXCEPT !.resp = items],
                                     [NoRet EXCEPT !.batchNumber = after.processedBatches,
                                                   !.successful = result.successful,
                                                   !.failed = result.failed,
                                                   !.sessionStatus = after.status])]
    /\ UNCHANGED <<now, aliases, sessMap, ops, client>>

(***************************************************************************)
(* AliasManager.swapAliasAsync, shared by completeBatchSession (auto-swap), *)
(* the promote route and direct callers.                                   *)
(***************************************************************************)
\* The catch block of completeBatchSession.
SessionAfterFailedCompletion_KeepStatus(session) ==
    [session EXCEPT !.errors = Append(@, ErrorEntry(0, "completion", "completion"))]

SessionAfterFailedCompletion(session) ==
    [session EXCEPT !.status = "failed",
                    !.errors = Append(@, ErrorEntry(0, "completion", "completion"))]

\* The invocation in slot c fails with `err` at await `at`: completeBatchSession
\* runs its catch block before rethrowing, the other handlers only throw.
CallFails(c, err, at) ==
    /\ calls' = [calls EXCEPT ![c] = Thrown(calls[c], err, at)]
    /\ IF calls[c].op = "complete"
         THEN sess' = [sess EXCEPT ![calls[c].sid] = SessionAfterFailedCompletion(@)]
         ELSE UNCHANGED sess

\* The invocation in slot c has swapped the alias: completeBatchSession rewrites
\* its DeploymentState to COMPLETED, the others return true.
SwapFinished(call) ==
    IF call.op = "complete"
      THEN Returned(call, [call.ret EXCEPT !.activeColor = call.color,
                                           !.activeIndex = call.target,
                                           !.stagingColor = "none",
                                           !.stagingIndex = NoIndex,
                                           !.deploymentStatus = "COMPLETED"])
      ELSE Returned(call, NoRet)

\* const existingIndices = await this.getIndicesForAliasAsync(alias)
SwapRead(c) ==
    /\ calls[c].pc = "swap_read"
    /\ \/ /\ calls' = [calls EXCEPT ![c].pc = "swap_update",
                                    ![c].existing = aliases[calls[c].alias]]
          /\ UNCHANGED sess
       \/ CallFails(c, "get_alias", "swap")
    /\ UNCHANGED <<now, indices, indexDocs, aliases, sessMap, ops, client>>

SwapActions_AddOnly(existing, newIndexName) ==
    [remove |-> {}, add |-> {newIndexName}]

\* One remove per existing index other than newIndexName, then one add.
SwapActions(existing, newIndexName) ==
    [remove |-> existing \ {newIndexName}, add |-> {newIndexName}]

\* await updateAliases({ body: { actions } }); then the acknowledged check and,
\* with deleteOldIndices, the start of the delete loop.
SwapUpdate(c) ==
    /\ calls[c].pc = "swap_update"
    /\ LET call    == calls[c]
           actions == SwapActions(call.existing, call.target)
           todo    == IF call.deleteOld THEN call.existing \ {call.target} ELSE {}
       IN
       \/ \* the request throws, or is answered acknowledged: false
          /\ CallFails(c, "update_aliases", "swap")
          /\ UNCHANGED aliases
       \/ /\ UpdateAliasesValid(actions)
          /\ aliases' = AliasesAfterUpdate(call.alias, actions)
          /\ calls' = [calls EXCEPT ![c] =
                          IF todo = {} THEN SwapFinished(call)
                          ELSE [call EXCEPT !.pc = "swap_delete", !.todo = todo]]
          /\ UNCHANGED sess
    /\ UNCHANGED <<now, indices, indexDocs, sessMap, ops, client>>

\* One round of the delete loop: await indices.delete({ index }); a failure is
\* logged and the loop goes on.
SwapDelete(c) ==
    /\ calls[c].pc = "swap_delete"
    /\ \E index \in calls[c].todo :
          LET call == calls[c]
              rest == call.todo \ {index}
              next == IF rest = {} THEN SwapFinished(call)
                      ELSE [call EXCEPT !.todo = rest]
          IN  /\ calls' = [calls EXCEPT ![c] = next]
              /\ \/ /\ index \in indices
                    /\ indices' = IndicesAfterDelete(index)
                    /\ indexDocs' = DocsAfterDelete(index)
                    /\ aliases' = AliasesAfterDelete(index)
                 \/ UNCHANGED <<indices, indexDocs, aliases>>
    /\ UNCHANGED <<now, sessMap, sess, ops, client>>

\* A direct call of swapAliasAsync(alias, newIndexName, deleteOldIndices).
SwapEntry(c, alias, newIndexName, deleteOld) ==
    /\ CanStart(c)
    /\ calls' = [calls EXCEPT ![c] =
                    [IdleCall EXCEPT !.op = "swap", !.pc = "swap_read", !.alias = alias,
                                     !.target = newIndexName, !.deleteOld = deleteOld,
                                     !.alias0 = aliases[alias], !.indices0 = indices]]
    /\ ops' = ops + 1 /\ UNCHANGED client
    /\ UNCHANGED <<now, indices, indexDocs, aliases, sessMap, sess>>

(***************************************************************************)
(* router.post('/:alias/promote')                                          *)
(***************************************************************************)
PromoteEntry(c, alias, targetIndex) ==
    /\ CanStart(c)
    /\ calls' = [calls EXCEPT ![c] =
                    [IdleCall EXCEPT !.op = "promote", !.pc = "promote_exists",
                                     !.alias = alias, !.target = targetIndex,
                                     !.alias0 = aliases[alias], !.indices0 = indices]]
    /\ ops' = ops + 1 /\ UNCHANGED client
    /\ UNCHANGED <<now, indices, indexDocs, aliases, sessMap, sess>>

\* await client.indices.exists({ index: targetIndex }); 400 when it does not.
PromoteExists(c) ==
    /\ calls[c].pc = "promote_exists"
    /\ calls' = [calls EXCEPT ![c] =
                    IF calls[c].target \in indices
                      THEN [calls[c] EXCEPT !.pc = "swap_read"]
                      ELSE Thrown(calls[c], "no_target", "exists")]
    /\ UNCHANGED <<now, indices, indexDocs, aliases, sessMap, sess, ops, client>>

(***************************************************************************)
(* ProductBatchSessionManager.completeBatchSession                         *)
(***************************************************************************)
CompleteEntry(c, sid) ==
    /\ CanStart(c)
    /\ ops' = ops + 1 /\ UNCHANGED client
    /\ LET call    == [IdleCall EXCEPT !.op = "complete", !.sid = sid]
           session == sess[sid]
       IN  calls' = [calls EXCEPT ![c] =
                IF sid \notin sessMap THEN Thrown(call, "not_found", "lookup")
                ELSE IF session.status # "active" THEN Thrown(call, "not_active", "status")
                ELSE [call EXCEPT !.pc = "complete_refresh", !.alias = session.alias,
                                  !.target = session.targetIndex,
                                  !.color = session.targetColor,
                                  !.strategy = session.strategy,
                                  !.alias0 = aliases[session.alias],
                                  !.indices0 = indices]]
    /\ UNCHANGED <<now, indices, indexDocs, aliases, sessMap, sess>>

\* await client.indices.refresh({ index: session.targetIndex })
CompleteRefresh(c) ==
    /\ calls[c].pc = "complete_refresh"
    /\ \/ /\ calls[c].target \in indices
          /\ calls' = [calls EXCEPT ![c].pc = "complete_count"]
          /\ UNCHANGED sess
       \/ CallFails(c, "refresh", "refresh")
    /\ UNCHANGED <<now, indices, indexDocs, aliases, sessMap, ops, client>>

\* const actualCount = (await client.count({ index })).count
CompleteCount(c) ==
    /\ calls[c].pc = "complete_count"
    /\ \/ /\ calls[c].target \in indices
          /\ calls' = [calls EXCEPT ![c].pc = "complete_wait",
                                    ![c].count = CountOf(calls[c].target)]
          /\ UNCHANGED sess
       \/ CallFails(c, "count", "count")
    /\ UNCHANGED <<now, indices, indexDocs, aliases, sessMap, ops, client>>

\* Whether a tick of waitForIndexReady can see the index ready: it exists and
\* holds at least expectedDocCount documents (its health is the cluster's to say).
ReadyTickPossible(index, expectedDocCount) ==
    index \in indices /\ CountOf(index) >= expectedDocCount

\* await healthChecker.waitForIndexReady(targetIndex, { timeout, expectedDocCount })
CompleteWait(c) ==
    /\ calls[c].pc = "complete_wait"
    /\ \/ /\ ReadyTickPossible(calls[c].target, calls[c].count)
          /\ calls' = [calls EXCEPT ![c].pc = "complete_validate"]
          /\ UNCHANGED sess
       \/ CallFails(c, "timeout", "waitReady")
    /\ UNCHANGED <<now, indices, indexDocs, aliases, sessMap, ops, client>>

\* validateIndexHealth can answer true only for an index that exists.
HealthyPossible(index) == index \in indices

\* const isHealthy = await validateIndexHealth(targetIndex); on true the session
\* is marked completed and the handler awaits getCurrentDeploymentState.
CompleteValidate(c) ==
    /\ calls[c].pc = "complete_validate"
    /\ \/ /\ HealthyPossible(calls[c].target)
          /\ calls' = [calls EXCEPT ![c].pc = "complete_state"]
          /\ sess' = [sess EXCEPT ![calls[c].sid].status = "completed"]
       \/ CallFails(c, "unhealthy", "validate")
    /\ UNCHANGED <<now, indices, indexDocs, aliases, sessMap, ops, client>>

\* session.strategy === DeploymentStrategy.AUTO_SWAP
CompleteUsesSwap(strategy) == strategy = "auto-swap"

\* The DeploymentState is built from the alias lookup; AUTO_SWAP goes on to
\* swapAliasAsync(alias, targetIndex, false), any other strategy returns.
CompleteState(c) ==
    /\ calls[c].pc = "complete_state"
    /\ \E st \in CurrentDeploymentStates(calls[c].alias) \cup {FailedDeploymentState} :
          LET call  == calls[c]
              state == [NoRet EXCEPT !.deploymentStatus = "READY_FOR_SWAP",
                                     !.activeIndex = st.activeIndex,
                                     !.activeColor = st.activeColor,
                                     !.stagingIndex = call.target,
                                     !.stagingColor = call.color]
          IN  calls' = [calls EXCEPT ![c] =
                  IF CompleteUsesSwap(call.strategy)
                    THEN [call EXCEPT !.pc = "swap_read", !.ret = state]
                    ELSE Returned(call, state)]
    /\ UNCHANGED <<now, indices, indexDocs, aliases, sessMap, sess, ops, client>>

(***************************************************************************)
(* ProductBatchSessionManager.cancelBatchSession                           *)
(***************************************************************************)
CancelEntry(c, sid) ==
    /\ CanStart(c)
    /\ ops' = ops + 1 /\ UNCHANGED client
    /\ LET call == [IdleCall EXCEPT !.op = "cancel", !.sid = sid] IN
       calls' = [calls EXCEPT ![c] =
                IF sid \notin sessMap THEN Thrown(call, "not_found", "lookup")
                ELSE [call EXCEPT !.pc = "cancel_delete", !.alias = sess[sid].alias,
                                  !.target = sess[sid].targetIndex,
                                  !.alias0 = aliases[sess[sid].alias],
                                  !.indices0 = indices]]
    /\ UNCHANGED <<now, indices, indexDocs, aliases, sessMap, sess>>

\* await client.indices.delete({ index: targetIndex, ignore_unavailable: true });
\* then session.status = 'failed'.
CancelDelete(c) ==
    /\ calls[c].pc = "cancel_delete"
    /\ LET call == calls[c] IN
       \/ /\ indices' = IndicesAfterDelete(call.target)
          /\ indexDocs' = DocsAfterDelete(call.target)
          /\ aliases' = AliasesAfterDelete(call.target)
          /\ sess' = [sess EXCEPT ![call.sid].status = "failed"]
          /\ calls' = [calls EXCEPT ![c] = Returned(call, NoRet)]
       \/ /\ calls' = [calls EXCEPT ![c] = Thrown(call, "delete", "delete")]
          /\ UNCHANGED <<indices, indexDocs, aliases, sess>>
    /\ UNCHANGED <<now, sessMap, ops, client>>

(***************************************************************************)
(* router.post('/batch/:sessionId/process')                                *)
(***************************************************************************)
\* A route without the upper limit on the batch length.
RouteRejects_EmptyOnly(documents) == Len(documents) = 0

\* !Array.isArray(documents) || documents.length === 0, and
\* documents.length > 1000 (request bodies are modelled as arrays).
RouteRejects(documents) ==
    Len(documents) = 0 \/ Len(documents) > MaxProductsPerBatch

\* The route up to the first await of processBatch: a rejected body is
\* answered at once (count: documents.length), any other body is handed to
\* productBatchSessionManager.processBatch.
ProcessRoute(c, sid, documents) ==
    IF RouteRejects(documents)
      THEN /\ CanStart(c)
           /\ ops' = ops + 1 /\ UNCHANGED client
           /\ calls' = [calls EXCEPT ![c] =
                 Thrown([IdleCall EXCEPT !.op = "processRoute", !.sid = sid,
                                         !.count = Len(documents), !.ts = now],
                        "invalid_body", "route")]
           /\ UNCHANGED <<now, indices, indexDocs, aliases, sessMap, sess>>
      ELSE ProcessEntry(c, sid, documents)

\* ctx.status of a finished process request: 400 for a rejected body, the
\* default 200 with the result, and in the catch block 404 for a message that
\* includes 'not found' or 'expired', 400 for 'not active', 500 for the rest.
\* (The messages of cluster errors are taken not to include those phrases.)
ProcessRouteStatus(call) ==
    IF call.failedAt = "route" THEN 400
    ELSE IF call.outcome = "ok" THEN 200
    ELSE IF call.err = "not_found" THEN 404
    ELSE IF call.err = "not_active" THEN 400
    ELSE 500

(***************************************************************************)
(* The expiry sweep and the clock.                                         *)
(***************************************************************************)
\* now - session.lastBatchAt.getTime() > this.sessionTimeout
Expirable(session, time) == time - session.lastBatchAt > SessionTimeout

\* A sweep that also deletes the target index of every session it expires.
Sweep_DeletesTargets ==
    /\ \E s \in sessMap : Expirable(sess[s], now)
    /\ sess' = [s \in SessionIds |->
                  IF s \in sessMap /\ Expirable(sess[s], now)
                    THEN [sess[s] EXCEPT !.status = "expired"]
                    ELSE sess[s]]
    /\ sessMap' = {s \in sessMap : ~Expirable(sess[s], now)}
    /\ LET targets == {sess[s].targetIndex : s \in {t \in sessMap : Expirable(sess[t], now)}}
       IN  /\ indices' = indices \ targets
           /\ indexDocs' = [n \in indices \ targets |-> indexDocs[n]]
           /\ aliases' = [a \in Aliases |-> aliases[a] \ targets]
    /\ UNCHANGED <<now, calls, ops, client>>

\* cleanupExpiredSessions, one run of the setInterval callback.
Sweep ==
    /\ \E s \in sessMap : Expirable(sess[s], now)
    /\ sess' = [s \in SessionIds |->
                  IF s \in sessMap /\ Expirable(sess[s], now)
                    THEN [sess[s] EXCEPT !.status = "expired"]
                    ELSE sess[s]]
    /\ sessMap' = {s \in sessMap : ~Expirable(sess[s], now)}
    /\ UNCHANGED <<now, indices, indexDocs, aliases, calls, ops, client>>

\* A pause longer than the session timeout.  Handlers' awaits are bounded by
\* far shorter timeouts, so such a pause falls between two requests.
Tick ==
    /\ \A c \in CallIds : ~InProgress(c)
    /\ now < (MaxTime + 1) * ClockStep
    /\ now' = now + ClockStep
    /\ UNCHANGED <<indices, indexDocs, aliases, sessMap, sess, calls, ops, client>>

(***************************************************************************)
(* BlueGreenDeploymentManager: getDeploymentStatus, deployNewIndex,        *)
(* swapAlias and rollback.                                                 *)
(***************************************************************************)
CanStartManager(c) == ~InProgress(c) /\ ops < MaxDeploys

\* The DeploymentState getDeploymentStatus builds when the alias lookup names
\* activeIndex first (NoIndex: the alias is bound to nothing).
StatusWithActive(alias, activeIndex) ==
    LET stagingIndices == {n \in indices : MatchesAliasDash(n, alias) /\ n # activeIndex}
        stagingIndex   == IF stagingIndices = {} THEN NoIndex
                          ELSE SortReverseFirst(stagingIndices)
    IN  [NoRet EXCEPT
           !.activeIndex  = activeIndex,
           !.activeColor  = IF activeIndex = NoIndex THEN "none"
                            ELSE ExtractColorFromIndex(activeIndex),
           !.stagingIndex = stagingIndex,
           !.stagingColor = IF stagingIndex = NoIndex THEN "none"
                            ELSE ExtractColorFromIndex(stagingIndex),
           !.deploymentStatus = IF stagingIndex = NoIndex THEN "IDLE"
                                ELSE "READY_FOR_SWAP"]

\* getDeploymentStatus(alias): activeIndex = Object.keys(aliasResponse)[0].
GetDeploymentStatus(alias) ==
    IF aliases[alias] = {} THEN {StatusWithActive(alias, NoIndex)}
    ELSE {StatusWithActive(alias, n) : n \in aliases[alias]}

\* deployNewIndex(alias, documents, strategy): the timestamp is taken, then the
\* handler awaits getDeploymentStatus.  nDocs is documents.length.
DeployEntry(c, alias, strategy, nDocs) ==
    /\ CanStartManager(c)
    /\ calls' = [calls EXCEPT ![c] =
                    [IdleCall EXCEPT !.op = "deploy", !.pc = "deploy_status",
                                     !.alias = alias, !.strategy = strategy,
                                     !.ts = now, !.count = nDocs,
                                     !.alias0 = aliases[alias], !.indices0 = indices]]
    /\ ops' = ops + 1 /\ UNCHANGED client
    /\ UNCHANGED <<now, indices, indexDocs, aliases, sessMap, sess>>

\* const currentState = await this.getDeploymentStatus(alias); target colour
\* and `${alias}-${targetColor}-${timestamp}` follow.
DeployStatus(c) ==
    /\ calls[c].pc = "deploy_status"
    /\ \/ \E st \in GetDeploymentStatus(calls[c].alias) :
            LET targetColor == NextColor(st.activeColor)
            IN  calls' = [calls EXCEPT ![c].pc = "deploy_create",
                                       ![c].color = targetColor,
                                       ![c].target = DeployIndexName(calls[c].alias,
                                                         targetColor, calls[c].ts),
                                       ![c].ret = st]
       \/ calls' = [calls EXCEPT ![c] = Thrown(calls[c], "status", "status")]
    /\ UNCHANGED <<now, indices, indexDocs, aliases, sessMap, sess, ops, client>>

\* await client.indices.create({ index: newIndexName })
DeployCreate(c) ==
    /\ calls[c].pc = "deploy_create"
    /\ LET call == calls[c] IN
       \/ /\ calls' = [calls EXCEPT ![c] = Thrown(call, "create_index", "create")]
          /\ UNCHANGED <<indices, indexDocs>>
       \/ /\ call.target \notin indices
          /\ indices' = IndicesAfterCreate(call.target)
          /\ indexDocs' = DocsAfterCreate(call.target)
          /\ calls' = [calls EXCEPT ![c].pc =
                          IF call.count > 0 THEN "deploy_ingest" ELSE "deploy_wait"]
    /\ UNCHANGED <<now, aliases, sessMap, sess, ops, client>>

\* The ids of documents[0..n-1].
DeployDocIds(n) == { <<"id", RecordIdToString(i)>> : i \in 1..n }

\* await this.indexDocuments(documents, newIndexName): item errors are logged
\* only (stored: the ids the cluster accepted); a failed request throws.
DeployIngest(c) ==
    /\ calls[c].pc = "deploy_ingest"
    /\ LET call == calls[c] IN
       \/ /\ calls' = [calls EXCEPT ![c] = Thrown(call, "bulk", "ingest")]
          /\ UNCHANGED <<indices, indexDocs>>
       \/ \E stored \in SUBSET DeployDocIds(call.count) :
            /\ call.target \in indices
            /\ indexDocs' = [indexDocs EXCEPT ![call.target] = @ \cup stored]
            /\ calls' = [calls EXCEPT ![c].pc = "deploy_wait"]
            /\ UNCHANGED indices
    /\ UNCHANGED <<now, aliases, sessMap, sess, ops, client>>

\* await healthChecker.waitForIndexReady(newIndexName, { expectedDocCount })
DeployWait(c) ==
    /\ calls[c].pc = "deploy_wait"
    /\ calls' = [calls EXCEPT ![c] =
                    IF ReadyTickPossible(calls[c].target, calls[c].count)
                      THEN [calls[c] EXCEPT !.pc = "deploy_validate"]
                      ELSE Thrown(calls[c], "timeout", "waitReady")]
       \/ calls' = [calls EXCEPT ![c] = Thrown(calls[c], "timeout", "waitReady")]
    /\ UNCHANGED <<now, indices, indexDocs, aliases, sessMap, sess, ops, client>>

\* newState of deployNewIndex before the strategy is looked at.
DeployNewState(call) ==
    [NoRet EXCEPT !.activeColor = call.ret.activeColor,
                  !.activeIndex = call.ret.activeIndex,
                  !.stagingColor = call.color,
                  !.stagingIndex = call.target,
                  !.deploymentStatus = "READY_FOR_SWAP"]

\* strategy === DeploymentStrategy.AUTO_SWAP
DeployUsesSwap(strategy) == strategy = "auto-swap"

\* const isHealthy = await validateIndexHealth(newIndexName); then newState and,
\* with AUTO_SWAP, the call of this.swapAlias(alias, targetColor).
DeployValidate(c) ==
    /\ calls[c].pc = "deploy_validate"
    /\ LET call == calls[c] IN
       \/ /\ HealthyPossible(call.target)
          /\ calls' = [calls EXCEPT ![c] =
                          IF DeployUsesSwap(call.strategy)
                            THEN [call EXCEPT !.pc = "mgr_swap_status",
                                              !.ret = DeployNewState(call)]
                            ELSE Returned(call, DeployNewState(call))]
       \/ calls' = [calls EXCEPT ![c] = Thrown(call, "unhealthy", "validate")]
    /\ UNCHANGED <<now, indices, indexDocs, aliases, sessMap, sess, ops, client>>

\* swapAlias(alias, targetColor), called directly.
ManagerSwapEntry(c, alias, targetColor) ==
    /\ CanStartManager(c)
    /\ calls' = [calls EXCEPT ![c] =
                    [IdleCall EXCEPT !.op = "swapAlias", !.pc = "mgr_swap_status",
                                     !.alias = alias, !.color = targetColor,
                                     !.alias0 = aliases[alias], !.indices0 = indices]]
    /\ ops' = ops + 1 /\ UNCHANGED client
    /\ UNCHANGED <<now, indices, indexDocs, aliases, sessMap, sess>>

\* A swapAlias that does not compare the staging colour with the target colour.
ManagerSwapStatus_NoColorCheck(c) ==
    /\ calls[c].pc = "mgr_swap_status"
    /\ LET call == calls[c] IN
       \/ \E st \in GetDeploymentStatus(call.alias) :
            calls' = [calls EXCEPT ![c] =
               IF st.stagingIndex = NoIndex THEN Thrown(call, "no_staging", "swap")
               ELSE [call EXCEPT !.pc = "mgr_swap_update",
                                 !.existing = IF st.activeIndex = NoIndex THEN {}
                                              ELSE {st.activeIndex},
                                 !.staging = st.stagingIndex]]
       \/ calls' = [calls EXCEPT ![c] = Thrown(call, "status", "swap")]
    /\ UNCHANGED <<now, indices, indexDocs, aliases, sessMap, sess, ops, client>>

\* swapAlias up to its updateAliases request: the status is read, the staging
\* index must exist and have the target colour.
ManagerSwapStatus(c) ==
    /\ calls[c].pc = "mgr_swap_status"
    /\ LET call == calls[c] IN
       \/ \E st \in GetDeploymentStatus(call.alias) :
            calls' = [calls EXCEPT ![c] =
               IF st.stagingIndex = NoIndex THEN Thrown(call, "no_staging", "swap")
               ELSE IF st.stagingColor # call.color
                 THEN Thrown(call, "color_mismatch", "swap")
               ELSE [call EXCEPT !.pc = "mgr_swap_update",
                                 !.existing = IF st.activeIndex = NoIndex THEN {}
                                              ELSE {st.activeIndex},
                                 !.staging = st.stagingIndex]]
       \/ calls' = [calls EXCEPT ![c] = Thrown(call, "status", "swap")]
    /\ UNCHANGED <<now, indices, indexDocs, aliases, sessMap, sess, ops, client>>

\* A swapAlias that throws after its alias update was applied.
ManagerSwapFinished_Throws(call, err) == Thrown(call, "after_update", "swap")

\* What the caller of swapAlias goes on to: deployNewIndex rewrites newState to
\* COMPLETED, a direct call returns nothing.
ManagerSwapFinished(call, err) ==
    [ (IF call.op = "deploy"
         THEN Returned(call, [call.ret EXCEPT !.activeColor = call.color,
                                              !.activeIndex = call.target,
                                              !.stagingColor = "none",
                                              !.stagingIndex = NoIndex,
                                              !.deploymentStatus = "COMPLETED"])
         ELSE Returned(call, NoRet))
      EXCEPT !.err = err ]

\* await client.indices.updateAliases({ body: { actions } }): the answer is not
\* looked at, so an answer with acknowledged: false passes for a swap.
ManagerSwapUpdate(c) ==
    /\ calls[c].pc = "mgr_swap_update"
    /\ LET call    == calls[c]
           actions == [remove |-> call.existing, add |-> {call.staging}]
       IN
       \/ /\ UpdateAliasesValid(actions)
          /\ aliases' = AliasesAfterUpdate(call.alias, actions)
          /\ calls' = [calls EXCEPT ![c] = ManagerSwapFinished(call, "none")]
       \/ /\ calls' = [calls EXCEPT ![c] = ManagerSwapFinished(call, "unacknowledged")]
          /\ UNCHANGED aliases
       \/ /\ calls' = [calls EXCEPT ![c] = Thrown(call, "update_aliases", "swap")]
          /\ UNCHANGED aliases
    /\ UNCHANGED <<now, indices, indexDocs, sessMap, sess, ops, client>>

\* rollback(alias)
RollbackEntry(c, alias) ==
    /\ CanStartManager(c)
    /\ calls' = [calls EXCEPT ![c] =
                    [IdleCall EXCEPT !.op = "rollback", !.pc = "rollback_status",
                                     !.alias = alias,
                                     !.alias0 = aliases[alias], !.indices0 = indices]]
    /\ ops' = ops + 1 /\ UNCHANGED client
    /\ UNCHANGED <<now, indices, indexDocs, aliases, sessMap, sess>>

\* const currentState = await this.getDeploymentStatus(alias); no active index
\* is an error, else the pattern `${alias}-${getNextColor(activeColor)}-*`.
RollbackStatus(c) ==
    /\ calls[c].pc = "rollback_status"
    /\ LET call == calls[c] IN
       \/ \E st \in GetDeploymentStatus(call.alias) :
            calls' = [calls EXCEPT ![c] =
               IF st.activeIndex = NoIndex THEN Thrown(call, "no_active", "rollback")
               ELSE [call EXCEPT !.pc = "rollback_get",
                                 !.existing = {st.activeIndex},
                                 !.color = NextColor(st.activeColor)]]
       \/ calls' = [calls EXCEPT ![c] = Thrown(call, "status", "rollback")]
    /\ UNCHANGED <<now, indices, indexDocs, aliases, sessMap, sess, ops, client>>

\* await client.indices.get({ index: previousIndexPattern }); previousIndex is
\* indices.sort().reverse()[0].
RollbackGet(c) ==
    /\ calls[c].pc = "rollback_get"
    /\ LET call    == calls[c]
           matches == {n \in indices : MatchesAliasColorDash(n, call.alias, call.color)}
       IN
       \/ calls' = [calls EXCEPT ![c] =
             IF matches = {} THEN Thrown(call, "no_previous", "rollback")
             ELSE [call EXCEPT !.pc = "rollback_update",
                               !.staging = SortReverseFirst(matches)]]
       \/ calls' = [calls EXCEPT ![c] = Thrown(call, "get_indices", "rollback")]
    /\ UNCHANGED <<now, indices, indexDocs, aliases, sessMap, sess, ops, client>>

\* await client.indices.updateAliases: remove activeIndex, add previousIndex.
RollbackUpdate(c) ==
    /\ calls[c].pc = "rollback_update"
    /\ LET call    == calls[c]
           actions == [remove |-> call.existing, add |-> {call.staging}]
       IN
       \/ /\ UpdateAliasesValid(actions)
          /\ aliases' = AliasesAfterUpdate(call.alias, actions)
          /\ calls' = [calls EXCEPT ![c] = Returned(call, NoRet)]
       \/ /\ calls' = [calls EXCEPT ![c] =
                          [Returned(call, NoRet) EXCEPT !.err = "unacknowledged"]]
          /\ UNCHANGED aliases
       \/ /\ calls' = [calls EXCEPT ![c] = Thrown(call, "update_aliases", "rollback")]
          /\ UNCHANGED aliases
    /\ UNCHANGED <<now, indices, indexDocs, sessMap, sess, ops, client>>

\* A millisecond passes.  The clock is read at the entry of deployNewIndex only,
\* so a tick during a call is a tick after it.
MillisecondTick ==
    /\ \A c \in CallIds : ~InProgress(c)
    /\ now < ClockStep + MaxDeploys - 1
    /\ now' = now + 1
    /\ UNCHANGED <<indices, indexDocs, aliases, sessMap, sess, calls, ops, client>>

(***************************************************************************)
(* BlueGreenDeploymentManager.cleanupOldIndex                              *)
(***************************************************************************)
\* cleanupOldIndex(alias): the handler awaits getDeploymentStatus.
CleanupEntry(c, alias) ==
    /\ CanStartManager(c)
    /\ calls' = [calls EXCEPT ![c] =
                    [IdleCall EXCEPT !.op = "cleanup", !.pc = "cleanup_status",
                                     !.alias = alias,
                                     !.alias0 = aliases[alias], !.indices0 = indices]]
    /\ ops' = ops + 1 /\ UNCHANGED client
    /\ UNCHANGED <<now, indices, indexDocs, aliases, sessMap, sess>>

\* const currentState = await this.getDeploymentStatus(alias); without an
\* active index the call returns, else the pattern `${alias}-${oldColor}-*`.
CleanupStatus(c) ==
    /\ calls[c].pc = "cleanup_status"
    /\ LET call == calls[c] IN
       \/ \E st \in GetDeploymentStatus(call.alias) :
            calls' = [calls EXCEPT ![c] =
               IF st.activeIndex = NoIndex THEN Returned(call, NoRet)
               ELSE [call EXCEPT !.pc = "cleanup_get",
                                 !.existing = {st.activeIndex},
                                 !.color = NextColor(st.activeColor)]]
       \/ calls' = [calls EXCEPT ![c] = Thrown(call, "status", "cleanup")]
    /\ UNCHANGED <<now, indices, indexDocs, aliases, sessMap, sess, ops, client>>

\* await client.indices.get({ index: oldIndexPattern }); indicesToDelete are the
\* names found, without currentState.activeIndex.
CleanupGet(c) ==
    /\ calls[c].pc = "cleanup_get"
    /\ LET call    == calls[c]
           matches == {n \in indices : MatchesAliasColorDash(n, call.alias, call.color)}
       IN
       \/ calls' = [calls EXCEPT ![c].pc = "cleanup_delete",
                                 ![c].todo = matches \ call.existing]
       \/ calls' = [calls EXCEPT ![c] = Thrown(call, "get_indices", "cleanup")]
    /\ UNCHANGED <<now, indices, indexDocs, aliases, sessMap, sess, ops, client>>

\* for (const index of indicesToDelete) await client.indices.delete({ index }):
\* one request of the loop, or the return after the last one.
CleanupDelete(c) ==
    /\ calls[c].pc = "cleanup_delete"
    /\ LET call == calls[c] IN
       IF call.todo = {}
         THEN /\ calls' = [calls EXCEPT ![c] = Returned(call, NoRet)]
              /\ UNCHANGED <<indices, indexDocs, aliases>>
         ELSE \E index \in call.todo :
                \/ /\ index \in indices
                   /\ indices' = IndicesAfterDelete(index)
                   /\ indexDocs' = DocsAfterDelete(index)
                   /\ aliases' = AliasesAfterDelete(index)
                   /\ calls' = [calls EXCEPT ![c].todo = call.todo \ {index}]
                \/ /\ calls' = [calls EXCEPT ![c] = Thrown(call, "delete_index", "cleanup")]
                   /\ UNCHANGED <<indices, indexDocs, aliases>>
    /\ UNCHANGED <<now, sessMap, sess, ops, client>>

(***************************************************************************)
(* BlueGreenProductIndexer.initializeBlueGreenDeployment                   *)
(***************************************************************************)
\* `${alias}_${initialColor}_${timestamp}`.toLowerCase()
InitialIndexName(alias, color, ts) == IndexName(alias, "_", color, ts)

\* Entry: the arguments are checked, then the handler awaits aliasExistsAsync.
InitializeEntry(c, alias, initialColor, nDocs) ==
    /\ CanStartManager(c)
    /\ calls' = [calls EXCEPT ![c] =
                    [IdleCall EXCEPT !.op = "initialize", !.pc = "init_exists",
                                     !.alias = alias, !.color = initialColor,
                                     !.count = nDocs,
                                     !.alias0 = aliases[alias], !.indices0 = indices]]
    /\ ops' = ops + 1 /\ UNCHANGED client
    /\ UNCHANGED <<now, indices, indexDocs, aliases, sessMap, sess>>

\* const aliasExists = await aliasManager.aliasExistsAsync(alias); an alias that
\* exists is an error, else the timestamp is taken and the index is named.
InitializeExists(c) ==
    /\ calls[c].pc = "init_exists"
    /\ LET call == calls[c] IN
       \/ calls' = [calls EXCEPT ![c] =
             IF aliases[call.alias] # {} THEN Thrown(call, "alias_exists", "exists")
             ELSE [call EXCEPT !.pc = "init_create", !.ts = now,
                               !.target = InitialIndexName(call.alias, call.color, now)]]
       \/ calls' = [calls EXCEPT ![c] = Thrown(call, "status", "exists")]
    /\ UNCHANGED <<now, indices, indexDocs, aliases, sessMap, sess, ops, client>>

\* await this.indexMapper.createIndexAsync(initialIndexName)
InitializeCreate(c) ==
    /\ calls[c].pc = "init_create"
    /\ LET call == calls[c] IN
       \/ /\ calls' = [calls EXCEPT ![c] = Thrown(call, "create_index", "create")]
          /\ UNCHANGED <<indices, indexDocs>>
       \/ /\ call.target \notin indices
          /\ indices' = IndicesAfterCreate(call.target)
          /\ indexDocs' = DocsAfterCreate(call.target)
          /\ calls' = [calls EXCEPT ![c].pc = "init_ingest"]
    /\ UNCHANGED <<now, aliases, sessMap, sess, ops, client>>

\* await this.indexDocumentsAsync(initialIndexName, productsToIndex): every
\* product is stored, or the call throws (request failure or an item error).
InitializeIngest(c) ==
    /\ calls[c].pc = "init_ingest"
    /\ LET call == calls[c] IN
       \/ /\ calls' = [calls EXCEPT ![c] = Thrown(call, "bulk", "ingest")]
          /\ UNCHANGED indexDocs
       \/ /\ call.target \in indices
          /\ indexDocs' = [indexDocs EXCEPT ![call.target] = @ \cup DeployDocIds(call.count)]
          /\ calls' = [calls EXCEPT ![c].pc = "init_alias"]
    /\ UNCHANGED <<now, indices, aliases, sessMap, sess, ops, client>>

\* await aliasManager.createAliasAsync(alias, initialIndexName): one add action;
\* the acknowledged bit it returns is not looked at.
InitializeAlias(c) ==
    /\ calls[c].pc = "init_alias"
    /\ LET call    == calls[c]
           actions == [remove |-> {}, add |-> {call.target}]
       IN
       \/ /\ UpdateAliasesValid(actions)
          /\ aliases' = AliasesAfterUpdate(call.alias, actions)
          /\ calls' = [calls EXCEPT ![c].pc = "init_wait"]
       \/ /\ calls' = [calls EXCEPT ![c].pc = "init_wait", ![c].err = "unacknowledged"]
          /\ UNCHANGED aliases
       \/ /\ calls' = [calls EXCEPT ![c] = Thrown(call, "update_aliases", "alias")]
          /\ UNCHANGED aliases
    /\ UNCHANGED <<now, indices, indexDocs, sessMap, sess, ops, client>>

\* await this.healthChecker.waitForIndexReady(initialIndexName, ...); then the
\* initial state (COMPLETED, activeIndex = the initial index) is returned.
InitializeWait(c) ==
    /\ calls[c].pc = "init_wait"
    /\ LET call == calls[c] IN
       \/ /\ ReadyTickPossible(call.target, call.count)
          /\ calls' = [calls EXCEPT ![c] =
                [Returned(call, [NoRet EXCEPT !.activeColor = call.color,
                                              !.activeIndex = call.target,
                                              !.deploymentStatus = "COMPLETED"])
                   EXCEPT !.err = call.err]]
       \/ calls' = [calls EXCEPT ![c] = Thrown(call, "timeout", "waitReady")]
    /\ UNCHANGED <<now, indices, indexDocs, aliases, sessMap, sess, ops, client>>

(***************************************************************************)
(* IndexHealthChecker.waitForIndexReady.  Every request to the cluster and *)
(* every sleep takes time: the clock advances inside the steps.            *)
(***************************************************************************)
\* Milliseconds a request to the cluster may take.
RequestDelays == {0, 1}

\* What cluster.health({ index, wait_for_status: 'yellow' }) may answer; for an
\* index that does not exist the request fails or reports red.
HealthAnswers(index) ==
    IF index \in indices THEN {"green", "yellow", "red", "throws"}
    ELSE {"red", "throws"}

\* waitForIndexReady(indexName, { timeout, expectedDocCount, checkInterval }):
\* startTime = Date.now(); expected is <<>> when expectedDocCount is undefined.
WaitEntry(c, index, timeout, checkInterval, expected) ==
    /\ CanStart(c)
    /\ ops' = ops + 1 /\ UNCHANGED client
    /\ calls' = [calls EXCEPT ![c] =
                    [IdleCall EXCEPT !.op = "waitReady", !.pc = "wait_loop",
                                     !.target = index, !.ts = now,
                                     !.timeout = timeout,
                                     !.checkInterval = checkInterval,
                                     !.expected = expected]]
    /\ UNCHANGED <<now, indices, indexDocs, aliases, sessMap, sess>>

\* A loop that would give up without looking at the clock.
WaitLoop_GivesUp(c) ==
    /\ calls[c].pc = "wait_loop"
    /\ calls' = [calls EXCEPT ![c] = Thrown(calls[c], "timeout", "waitReady")]
    /\ UNCHANGED <<now, indices, indexDocs, aliases, sessMap, sess, ops, client>>

\* while (Date.now() - startTime < timeout), and the throw after the loop.
WaitLoop(c) ==
    /\ calls[c].pc = "wait_loop"
    /\ calls' = [calls EXCEPT ![c] =
                    IF now - calls[c].ts < calls[c].timeout
                    THEN [calls[c] EXCEPT !.pc = "wait_exists"]
                    ELSE Thrown(calls[c], "timeout", "waitReady")]
    /\ UNCHANGED <<now, indices, indexDocs, aliases, sessMap, sess, ops, client>>

\* await client.indices.exists: a missing index or an error goes to the sleep.
WaitExists(c) ==
    /\ calls[c].pc = "wait_exists"
    /\ \E d \in RequestDelays : now' = now + d
    /\ \E throws \in BOOLEAN :
          calls' = [calls EXCEPT ![c].pc =
                       IF throws \/ calls[c].target \notin indices THEN "wait_sleep"
                       ELSE IF calls[c].expected # <<>> THEN "wait_count"
                       ELSE "wait_health"]
    /\ UNCHANGED <<indices, indexDocs, aliases, sessMap, sess, ops, client>>

\* await client.count: actualCount < expectedDocCount, or an error (always so
\* when the index is gone), goes to the sleep.
WaitCount(c) ==
    /\ calls[c].pc = "wait_count"
    /\ \E d \in RequestDelays : now' = now + d
    /\ \E throws \in BOOLEAN :
          calls' = [calls EXCEPT ![c].pc =
                       IF throws \/ calls[c].target \notin indices THEN "wait_sleep"
                       ELSE IF CountOf(calls[c].target) < calls[c].expected[1]
                            THEN "wait_sleep"
                       ELSE "wait_health"]
    /\ UNCHANGED <<indices, indexDocs, aliases, sessMap, sess, ops, client>>

\* await client.cluster.health: return unless the status is red or the request
\* failed.
WaitHealth(c) ==
    /\ calls[c].pc = "wait_health"
    /\ \E d \in RequestDelays : now' = now + d
    /\ \E h \in HealthAnswers(calls[c].target) :
          calls' = [calls EXCEPT ![c] =
                       IF h \in {"red", "throws"}
                       THEN [calls[c] EXCEPT !.pc = "wait_sleep", !.health = h]
                       ELSE Returned([calls[c] EXCEPT !.health = h], NoRet)]
    /\ UNCHANGED <<indices, indexDocs, aliases, sessMap, sess, ops, client>>

\* await this.sleep(checkInterval): the timer fires after checkInterval or later.
WaitSleep(c) ==
    /\ calls[c].pc = "wait_sleep"
    /\ \E d \in RequestDelays : now' = now + calls[c].checkInterval + d
    /\ calls' = [calls EXCEPT ![c].pc = "wait_loop"]
    /\ UNCHANGED <<indices, indexDocs, aliases, sessMap, sess, ops, client>>

\* One step of the waitForIndexReady in slot c.
WaitStep(c) ==
    \/ WaitLoop(c)
    \/ WaitExists(c)
    \/ WaitCount(c)
    \/ WaitHealth(c)
    \/ WaitSleep(c)

(***************************************************************************)
(* MemoryEfficientBatchProcessor.processJsonFile: the reference batch      *)
(* client.  task[k] is where the call of                                   *)
(* processBatchWithConcurrencyControl for batch k stands: "none" (not      *)
(* called), "sleeping" (in the while loop), "running" (awaiting            *)
(* this.processBatch), "ok" or "failed" (settled).                         *)
(***************************************************************************)
\* const maxConcurrentBatches = 3
maxConcurrentBatches == 3

\* processBatchWithConcurrencyControl from its call, or from a wake-up, to its
\* next await: the while test, then concurrentBatches++ and the request.
TaskProceeds(cl, k) ==
    IF cl.concurrentBatches >= maxConcurrentBatches
      THEN [cl EXCEPT !.task[k] = "sleeping"]
      ELSE [cl EXCEPT !.task[k] = "running", !.concurrentBatches = @ + 1]

\* stream.on('data') filling a batch, or stream.on('end') with or without a
\* final batch: the next batch task is called.
ClientStream ==
    /\ client.stream = "open"
    /\ \/ \E k \in 1..MaxClientBatches :
            /\ client.task[k] = "none"
            /\ \A j \in 1..(k - 1) : client.task[j] # "none"
            /\ \E ends \in BOOLEAN :
                  client' = [TaskProceeds(client, k) EXCEPT
                               !.stream = IF ends THEN "ended" ELSE "open"]
       \/ client' = [client EXCEPT !.stream = "ended"]
    /\ UNCHANGED <<now, indices, indexDocs, aliases, sessMap, sess, calls, ops>>

\* A wake-up that would go on without testing the counter again.
ClientWake_NoRecheck(k) ==
    /\ client.task[k] = "sleeping"
    /\ client' = [client EXCEPT !.task[k] = "running", !.concurrentBatches = @ + 1]
    /\ UNCHANGED <<now, indices, indexDocs, aliases, sessMap, sess, calls, ops>>

\* await this.sleep(100) returns and the while test runs again.
ClientWake(k) ==
    /\ client.task[k] = "sleeping"
    /\ client' = TaskProceeds(client, k)
    /\ UNCHANGED <<now, indices, indexDocs, aliases, sessMap, sess, calls, ops>>

\* await this.processBatch(batch, batchNum) settles: the finally block counts
\* down; a rejection of a batch started by a data event destroys the stream.
ClientAnswered(k) ==
    /\ client.task[k] = "running"
    /\ \/ client' = [client EXCEPT !.task[k] = "ok", !.concurrentBatches = @ - 1]
       \/ client' = [client EXCEPT !.task[k] = "failed", !.concurrentBatches = @ - 1,
                                   !.stream = IF @ = "open" THEN "destroyed" ELSE @]
    /\ UNCHANGED <<now, indices, indexDocs, aliases, sessMap, sess, calls, ops>>

(***************************************************************************)
(* Specifications.                                                         *)
(***************************************************************************)
\* An index name a caller may pass that need not exist.
StrayIndex == SessionIndexName("products", "green", 0)

SwapTargets == indices \cup {StrayIndex}

\* Requests to the session manager and the promote route, entering in slot c.
Enter(c) ==
    \/ \E a \in Aliases, st \in Strategies : StartEntry(c, a, st)
    \/ \E s \in SessionIds, b \in Batches : ProcessEntry(c, s, b)
    \/ \E s \in SessionIds : CompleteEntry(c, s)
    \/ \E s \in SessionIds : CancelEntry(c, s)
    \/ \E a \in Aliases, t \in SwapTargets : PromoteEntry(c, a, t)

\* Direct calls of the alias manager.
EnterSwap(c) ==
    \E a \in Aliases, t \in SwapTargets, d \in BOOLEAN : SwapEntry(c, a, t, d)

\* The steps of the invocations in flight, and of the environment.
Step ==
    \/ \E c \in CallIds : StartState(c)
    \/ \E c \in CallIds : StartCreate(c)
    \/ \E c \in CallIds : ProcessBulk(c)
    \/ \E c \in CallIds : CompleteRefresh(c)
    \/ \E c \in CallIds : CompleteCount(c)
    \/ \E c \in CallIds : CompleteWait(c)
    \/ \E c \in CallIds : CompleteValidate(c)
    \/ \E c \in CallIds : CompleteState(c)
    \/ \E c \in CallIds : PromoteExists(c)
    \/ \E c \in CallIds : SwapRead(c)
    \/ \E c \in CallIds : SwapUpdate(c)
    \/ \E c \in CallIds : CancelDelete(c)
    \/ Sweep
    \/ Tick

\* Handlers overlap freely at their awaits.
Next == (\E c \in CallIds : Enter(c)) \/ Step

Spec == Init /\ [][Next]_vars

\* Handlers run one at a time: a request is only made when none is in flight.
AllIdle == \A c \in CallIds : ~InProgress(c)

NextSerial ==
    \/ AllIdle /\ (Enter("c1") \/ EnterSwap("c1"))
    \/ Step
    \/ SwapDelete("c1")

SpecSerial == Init /\ [][NextSerial]_vars

\* n copies of one product with id "1".
Copies(n) == [i \in 1..n |-> [id |-> "1", rid |-> <<>>]]

\* Request bodies sent to the process route: the small batches, the empty
\* array, and arrays at and just over the route's limit.
RouteBodies ==
    Batches \cup {<<>>, Copies(MaxProductsPerBatch), Copies(MaxProductsPerBatch + 1)}

\* The process route beside start and cancel, one request at a time, with the
\* expiry sweep.
EnterRoute(c) ==
    \/ \E a \in Aliases, st \in Strategies : StartEntry(c, a, st)
    \/ \E s \in SessionIds, b \in RouteBodies : ProcessRoute(c, s, b)
    \/ \E s \in SessionIds : CancelEntry(c, s)

NextRoute ==
    \/ AllIdle /\ EnterRoute("c1")
    \/ StartState("c1")
    \/ StartCreate("c1")
    \/ ProcessBulk("c1")
    \/ CancelDelete("c1")
    \/ Sweep
    \/ Tick

SpecRoute == Init /\ [][NextRoute]_vars

\* What a successful startBatchSession at time ClockStep leaves behind on the
\* cluster cl: the target index of the colour opposite to the active one, and
\* the session "s1" registered as active.
StartedSession(cl, strategy) ==
    LET active == IF cl.aliases["products"] = {} THEN "none"
                  ELSE SessionColorOf(CHOOSE n \in cl.aliases["products"] : TRUE)
        color  == NextColor(active)
        target == SessionIndexName("products", color, ClockStep)
    IN  [indices |-> cl.indices \cup {target},
         session |-> NewSession([alias |-> "products", target |-> target,
                                 color |-> color, strategy |-> strategy], ClockStep)]

\* One AUTO_SWAP session from its start on: the state after startBatchSession
\* returned.
InitSession ==
    /\ now = ClockStep
    /\ \E cl \in InitialClusters :
          /\ indices = StartedSession(cl, "auto-swap").indices
          /\ aliases = cl.aliases
          /\ sess = [s \in SessionIds |->
                       IF s = "s1" THEN StartedSession(cl, "auto-swap").session
                       ELSE NoSession]
    /\ indexDocs = [n \in indices |-> {}]
    /\ sessMap = {"s1"}
    /\ calls = [c \in CallIds |-> IdleCall]
    /\ ops = 0
    /\ client = IdleClient

\* Batches and the completion of that session, one request at a time.
EnterSession(c) ==
    \/ \E b \in Batches : ProcessEntry(c, "s1", b)
    \/ CompleteEntry(c, "s1")

NextSession ==
    \/ AllIdle /\ EnterSession("c1")
    \/ ProcessBulk("c1")
    \/ CompleteRefresh("c1")
    \/ CompleteCount("c1")
    \/ CompleteWait("c1")
    \/ CompleteValidate("c1")
    \/ CompleteState("c1")
    \/ SwapRead("c1")
    \/ SwapUpdate("c1")
    \/ Sweep
    \/ Tick

SpecSession == InitSession /\ [][NextSession]_vars

\* The batch client alone: stream events, sleeps and answers in any order.
NextClient ==
    \/ ClientStream
    \/ \E k \in 1..MaxClientBatches : ClientWake(k)
    \/ \E k \in 1..MaxClientBatches : ClientAnswered(k)

SpecClient == Init /\ [][NextClient]_vars

\* A started session beside further startBatchSession calls and direct calls
\* of the alias manager (with and without deleteOld), one request at a time and
\* within one clock second.
NextRestart ==
    \/ /\ AllIdle
       /\ \/ \E a \in Aliases, st \in Strategies : StartEntry("c1", a, st)
          \/ EnterSwap("c1")
    \/ StartState("c1")
    \/ StartCreate("c1")
    \/ SwapRead("c1")
    \/ SwapUpdate("c1")
    \/ SwapDelete("c1")

SpecRestart == InitSession /\ [][NextRestart]_vars

\* waitForIndexReady on the session's index or on an index that never exists,
\* with a timeout of 0 or 3 ms, a checkInterval of 2 ms and expectedDocCount
\* undefined, 1 or 2, while a one-product batch arrives for the session or the
\* session is cancelled.
EnterWait ==
    \/ \E n \in {sess["s1"].targetIndex, StrayIndex}, t \in {0, 3},
          e \in {<<>>, <<1>>, <<2>>} :
          WaitEntry("c1", n, t, 2, e)
    \/ \E b \in {x \in Batches : Len(x) = 1} : ProcessEntry("c2", "s1", b)
    \/ CancelEntry("c2", "s1")

NextWait ==
    \/ ops < MaxWaitOps /\ EnterWait
    \/ WaitStep("c1")
    \/ ProcessBulk("c2")
    \/ CancelDelete("c2")

\* The event loop runs a continuation once its promise has settled; requests
\* to the cluster settle (answer or client timeout) and timers fire.
SpecWaitFair == InitSession /\ [][NextWait]_vars /\ WF_vars(WaitStep("c1"))

\* The deployment manager on a cluster that starts empty, one call at a time.
InitDeploy == Init /\ indices = {}

DeployDocCounts == {0, 1}

EnterManager(c) ==
    \/ \E a \in Aliases, st \in Strategies, n \in DeployDocCounts : DeployEntry(c, a, st, n)
    \/ \E a \in Aliases, color \in Colors : ManagerSwapEntry(c, a, color)
    \/ \E a \in Aliases : RollbackEntry(c, a)

NextDeploy ==
    \/ AllIdle /\ EnterManager("c1")
    \/ DeployStatus("c1")
    \/ DeployCreate("c1")
    \/ DeployIngest("c1")
    \/ DeployWait("c1")
    \/ DeployValidate("c1")
    \/ ManagerSwapStatus("c1")
    \/ ManagerSwapUpdate("c1")
    \/ RollbackStatus("c1")
    \/ RollbackGet("c1")
    \/ RollbackUpdate("c1")
    \/ MillisecondTick

SpecDeploy == InitDeploy /\ [][NextDeploy]_vars

\* deployNewIndex calls that overlap at their awaits, on a cluster that starts
\* empty; the clock goes on while calls are in flight.
NextOverlap ==
    \/ /\ ops < MaxOverlapOps
       /\ \E c \in CallIds, a \in Aliases, st \in Strategies, n \in DeployDocCounts :
             DeployEntry(c, a, st, n)
    \/ \E c \in CallIds : DeployStatus(c)
    \/ \E c \in CallIds : DeployCreate(c)
    \/ \E c \in CallIds : DeployIngest(c)
    \/ \E c \in CallIds : DeployWait(c)
    \/ \E c \in CallIds : DeployValidate(c)
    \/ \E c \in CallIds : ManagerSwapStatus(c)
    \/ \E c \in CallIds : ManagerSwapUpdate(c)
    \/ /\ now < ClockStep + MaxOverlapOps - 1
       /\ now' = now + 1
       /\ UNCHANGED <<indices, indexDocs, aliases, sessMap, sess, calls, ops, client>>

SpecOverlap == InitDeploy /\ [][NextOverlap]_vars

\* The indexer: initializeBlueGreenDeployment, deployNewIndex and rollback on
\* one alias, one call at a time, on a cluster that starts empty.
EnterIndexer(c) ==
    /\ ops < MaxIndexerOps
    /\ \E a \in Aliases, n \in DeployDocCounts :
          \/ \E color \in Colors : InitializeEntry(c, a, color, n)
          \/ \E s \in Strategies : DeployEntry(c, a, s, n)
          \/ RollbackEntry(c, a)

NextIndexer ==
    \/ AllIdle /\ EnterIndexer("c1")
    \/ InitializeExists("c1")
    \/ InitializeCreate("c1")
    \/ InitializeIngest("c1")
    \/ InitializeAlias("c1")
    \/ InitializeWait("c1")
    \/ DeployStatus("c1")
    \/ DeployCreate("c1")
    \/ DeployIngest("c1")
    \/ DeployWait("c1")
    \/ DeployValidate("c1")
    \/ ManagerSwapStatus("c1")
    \/ ManagerSwapUpdate("c1")
    \/ RollbackStatus("c1")
    \/ RollbackGet("c1")
    \/ RollbackUpdate("c1")
    \/ MillisecondTick

SpecIndexer == InitDeploy /\ [][NextIndexer]_vars

\* The deployment manager called by one client that keeps the record of the
\* call before: calls take the two slots in turn, one call at a time, so the
\* finished record in the other slot is that of the immediately preceding call.
TurnSlot == IF ops % 2 = 0 THEN "c1" ELSE "c2"

PreviousSlot(c) == IF c = "c1" THEN "c2" ELSE "c1"

EnterSequence(c) ==
    /\ ops < MaxSequence
    /\ \/ \E a \in Aliases, st \in Strategies : DeployEntry(c, a, st, 0)
       \/ \E a \in Aliases, color \in Colors : ManagerSwapEntry(c, a, color)
       \/ \E a \in Aliases : RollbackEntry(c, a)

NextSequence ==
    \/ AllIdle /\ EnterSequence(TurnSlot)
    \/ \E c \in CallIds : DeployStatus(c)
    \/ \E c \in CallIds : DeployCreate(c)
    \/ \E c \in CallIds : DeployWait(c)
    \/ \E c \in CallIds : DeployValidate(c)
    \/ \E c \in CallIds : ManagerSwapStatus(c)
    \/ \E c \in CallIds : ManagerSwapUpdate(c)
    \/ \E c \in CallIds : RollbackStatus(c)
    \/ \E c \in CallIds : RollbackGet(c)
    \/ \E c \in CallIds : RollbackUpdate(c)
    \/ MillisecondTick

\* What two deployments on an empty cluster leave behind: deployNewIndex with
\* SAFE stages blue (time 0), deployNewIndex with AUTO_SWAP finds no active
\* colour, stages blue again (time 1) and binds the alias to the newer index.
EarlierDeployments ==
    [indices |-> {DeployIndexName("products", "blue", 0),
                  DeployIndexName("products", "blue", 1)},
     aliases |-> [a \in Aliases |-> {DeployIndexName("products", "blue", 1)}]]

\* The sequence starts on an empty cluster or after those two deployments.
InitSequence ==
    /\ now = ClockStep
    /\ \E cl \in {[indices |-> {}, aliases |-> [a \in Aliases |-> {}]],
                   EarlierDeployments} :
          /\ indices = cl.indices
          /\ aliases = cl.aliases
    /\ indexDocs = [n \in indices |-> {}]
    /\ sessMap = {}
    /\ sess = [s \in SessionIds |-> NoSession]
    /\ calls = [c \in CallIds |-> IdleCall]
    /\ ops = 0
    /\ client = IdleClient

SpecSequence == InitSequence /\ [][NextSequence]_vars

\* What two AUTO_SWAP deployments on an empty cluster leave behind: blue (time
\* 0), then green (time 1), the alias on the green index.
BlueThenGreen ==
    [indices |-> {DeployIndexName("products", "blue", 0),
                  DeployIndexName("products", "green", 1)},
     aliases |-> [a \in Aliases |-> {DeployIndexName("products", "green", 1)}]]

InitCleanup ==
    /\ now = ClockStep
    /\ \E cl \in {EarlierDeployments, BlueThenGreen} :
          /\ indices = cl.indices
          /\ aliases = cl.aliases
    /\ indexDocs = [n \in indices |-> {}]
    /\ sessMap = {}
    /\ sess = [s \in SessionIds |-> NoSession]
    /\ calls = [c \in CallIds |-> IdleCall]
    /\ ops = 0
    /\ client = IdleClient

\* cleanupOldIndex in slot c1 while swapAlias, rollback or deployNewIndex calls
\* run in slot c2, interleaved at their awaits.
EnterCleanup ==
    /\ ops < MaxCleanupOps
    /\ \E a \in Aliases :
         \/ CleanupEntry("c1", a)
         \/ \E color \in Colors : ManagerSwapEntry("c2", a, color)
         \/ RollbackEntry("c2", a)
         \/ \E st \in Strategies : DeployEntry("c2", a, st, 0)

NextCleanup ==
    \/ EnterCleanup
    \/ CleanupStatus("c1")
    \/ CleanupGet("c1")
    \/ CleanupDelete("c1")
    \/ DeployStatus("c2")
    \/ DeployCreate("c2")
    \/ DeployWait("c2")
    \/ DeployValidate("c2")
    \/ ManagerSwapStatus("c2")
    \/ ManagerSwapUpdate("c2")
    \/ RollbackStatus("c2")
    \/ RollbackGet("c2")
    \/ RollbackUpdate("c2")

SpecCleanup == InitCleanup /\ [][NextCleanup]_vars

\* The cluster of InitCleanup when another deployment, of alias OtherAlias, has
\* staged an index of its own beside the indices of "products".
OtherIndices == {DeployIndexName(OtherAlias, "blue", 0)}

InitOther ==
    /\ now = ClockStep
    /\ \E cl \in {EarlierDeployments, BlueThenGreen} :
          /\ indices = cl.indices \cup OtherIndices
          /\ aliases = cl.aliases
    /\ indexDocs = [n \in indices |-> {}]
    /\ sessMap = {}
    /\ sess = [s \in SessionIds |-> NoSession]
    /\ calls = [c \in CallIds |-> IdleCall]
    /\ ops = 0
    /\ client = IdleClient

SpecOther == InitOther /\ [][NextCleanup]_vars

(***************************************************************************)
(* Properties.                                                             *)
(***************************************************************************)
SessionOps == {"processBatch", "complete", "cancel"}

TerminalStatuses == {"completed", "failed", "expired"}

Counters(session) ==
    <<session.totalBatches, session.processedBatches, session.totalDocuments,
      session.processedDocuments, session.failedDocuments>>

\* The step in which the invocation in slot c returns or throws.
Finishes(c) == InProgress(c) /\ calls'[c].pc = "done"

\* The step in which a processBatch request enters slot c.
EntersProcessBatch(c) ==
    /\ ~InProgress(c)
    /\ calls'[c] # calls[c]
    /\ calls'[c].op = "processBatch"

\* Two documents of the batch get the same id from the normalisation.
HasDuplicateIds(docs, sid, batchNo, time) ==
    \E i, j \in 1..Len(docs) :
        /\ i < j
        /\ NormalizeId(docs[i], sid, batchNo, i - 1, time)
             = NormalizeId(docs[j], sid, batchNo, j - 1, time)

\* C1: in every reachable state, under any interleaving of the alias-mutating
\* operations, every alias is bound to at most one index.
SingleActiveIndex == \A a \in Aliases : Cardinality(aliases[a]) <= 1

\* C2: swapAliasAsync(alias, newIndex, deleteOld), run with no other handler in
\* flight, shows the alias bound either to what it was bound to before or to
\* exactly {newIndex}; before the update succeeds no index is deleted; when the
\* call fails the binding and the indices are those from before the call; when
\* it succeeds the alias is bound to exactly {newIndex}.
SwapIsAtomic ==
    \A c \in CallIds :
        calls[c].op = "swap" =>
            LET call == calls[c] IN
            /\ aliases[call.alias] \in {call.alias0, {call.target}}
            /\ call.pc \in {"swap_read", "swap_update"} =>
                  /\ aliases[call.alias] = call.alias0
                  /\ indices = call.indices0
            /\ (call.pc = "done" /\ call.outcome = "error") =>
                  /\ aliases[call.alias] = call.alias0
                  /\ indices = call.indices0
            /\ (call.pc = "swap_delete" \/ (call.pc = "done" /\ call.outcome = "ok")) =>
                  aliases[call.alias] = {call.target}

\* A swap with deleteOld has moved the alias off another index and deleted it.
SwapMovedAliasAndDeletedOld ==
    \E c \in CallIds :
        /\ calls[c].op = "swap" /\ calls[c].pc = "done" /\ calls[c].outcome = "ok"
        /\ calls[c].deleteOld
        /\ calls[c].alias0 # {} /\ calls[c].target \notin calls[c].alias0
        /\ indices # calls[c].indices0

\* C3: a cancel that finishes, on a session of any status and strategy, leaves
\* every alias bound to exactly the indices it was bound to when cancel was
\* called.
CancelLeavesAliases ==
    [][\A c \in CallIds :
          (calls[c].op = "cancel" /\ Finishes(c)) => aliases' = aliases]_vars

\* C4: once a session's status is completed, failed or expired, no step of any
\* operation changes one of its five counters.
TerminalCountersFrozen ==
    [][\A s \in SessionIds :
          sess[s].status \in TerminalStatuses =>
              Counters(sess'[s]) = Counters(sess[s])]_vars

\* C5: for every session, at most one of processBatch, complete and cancel is
\* in progress at any time.
OneCallPerSession ==
    \A s \in SessionIds :
        Cardinality({c \in CallIds : /\ InProgress(c)
                                     /\ calls[c].op \in SessionOps
                                     /\ calls[c].sid = s}) <= 1

\* C6: in every reachable state processedDocuments + failedDocuments <=
\* totalDocuments for every session, and no step makes one of the five counters
\* of a session smaller.
CountersMonotoneAndBounded ==
    /\ [](\A s \in SessionIds :
            sess[s].processedDocuments + sess[s].failedDocuments
                <= sess[s].totalDocuments)
    /\ [][\A s \in SessionIds : \A i \in 1..5 :
            Counters(sess'[s])[i] >= Counters(sess[s])[i]]_vars

\* A session has taken two batches, with documents indexed and documents failed.
TwoBatchesWithFailures ==
    \E s \in SessionIds :
        /\ sess[s].totalBatches = 2
        /\ sess[s].processedDocuments > 0
        /\ sess[s].failedDocuments > 0

\* C7: a processBatch on an active session whose batch has two documents with
\* the same normalised id throws in its first step, before the bulk request:
\* indices and their documents, the session's counters and its status (active)
\* are unchanged.
DuplicateIdsRejected ==
    [][\A c \in CallIds :
          LET sid == calls'[c].sid IN
          ( /\ EntersProcessBatch(c)
            /\ sid \in sessMap
            /\ sess[sid].status = "active"
            /\ HasDuplicateIds(calls'[c].docs, sid, sess[sid].totalBatches + 1, now) )
          => /\ calls'[c].pc = "done"
             /\ calls'[c].outcome = "error"
             /\ indices' = indices
             /\ indexDocs' = indexDocs
             /\ Counters(sess'[sid]) = Counters(sess[sid])
             /\ sess'[sid].status = "active"]_vars

\* A batch was rejected whose two documents carry the same id in different
\* fields (id and RecordId).
DuplicateAcrossFieldsRejected ==
    \E c \in CallIds :
        /\ calls[c].op = "processBatch"
        /\ calls[c].err = "duplicate_ids"
        /\ Len(calls[c].docs) = 2
        /\ calls[c].docs[1].id # calls[c].docs[2].id

\* C8: when complete returns, the session's status is completed and, with
\* AUTO_SWAP, the alias is bound to exactly targetIndex and the result is
\* COMPLETED with activeIndex = targetIndex; with another strategy the alias is
\* bound as before the call and the result is READY_FOR_SWAP with stagingIndex =
\* targetIndex and stagingColor = targetColor.
CompleteDecidedByStrategy ==
    [][\A c \in CallIds :
          (calls[c].op = "complete" /\ Finishes(c) /\ calls'[c].outcome = "ok") =>
              LET call    == calls'[c]
                  session == sess'[call.sid]
              IN  /\ session.status = "completed"
                  /\ IF session.strategy = "auto-swap"
                       THEN /\ aliases'[call.alias] = {session.targetIndex}
                            /\ call.ret.deploymentStatus = "COMPLETED"
                            /\ call.ret.activeIndex = session.targetIndex
                       ELSE /\ aliases'[call.alias] = call.alias0
                            /\ call.ret.deploymentStatus = "READY_FOR_SWAP"
                            /\ call.ret.stagingIndex = session.targetIndex
                            /\ call.ret.stagingColor = session.targetColor]_vars

AfterRefresh == {"count", "waitReady", "validate", "swap"}

\* C9: when complete throws at a step after the refresh (count, waitReady,
\* validation, alias swap), the session's status is failed, an error entry with
\* phase completion has been appended, the alias is bound as before the call
\* and the target index exists.
FailedCompletionIsClean ==
    [][\A c \in CallIds :
          ( /\ calls[c].op = "complete"
            /\ Finishes(c)
            /\ calls'[c].outcome = "error"
            /\ calls'[c].failedAt \in AfterRefresh ) =>
              LET call == calls'[c]
                  sid  == call.sid
              IN  /\ sess'[sid].status = "failed"
                  /\ Len(sess'[sid].errors) = Len(sess[sid].errors) + 1
                  /\ sess'[sid].errors[Len(sess'[sid].errors)].phase = "completion"
                  /\ aliases'[call.alias] = call.alias0
                  /\ call.target \in indices']_vars

\* An auto-swap completion failed in the alias swap while the alias was bound.
CompletionFailedInSwap ==
    \E c \in CallIds :
        /\ calls[c].op = "complete" /\ calls[c].pc = "done"
        /\ calls[c].outcome = "error" /\ calls[c].failedAt = "swap"
        /\ calls[c].alias0 # {}
        /\ sess[calls[c].sid].status = "failed"

\* What the cluster, not the program, makes a deployment fail with.
ClusterErrors ==
    {"status", "create_index", "bulk", "timeout", "unhealthy", "update_aliases",
     "unacknowledged"}

\* C10: a deployNewIndex in which the cluster made nothing fail ends, with
\* AUTO_SWAP, by returning COMPLETED with the alias bound to exactly the index it
\* created and, with SAFE, by returning READY_FOR_SWAP with stagingIndex the
\* created index and the alias bound as before.
DeployReachesStrategyOutcome ==
    [][\A c \in CallIds :
          ( /\ calls[c].op = "deploy"
            /\ Finishes(c)
            /\ calls'[c].err \notin ClusterErrors ) =>
              LET call == calls'[c]
              IN  /\ call.outcome = "ok"
                  /\ IF call.strategy = "auto-swap"
                       THEN /\ call.ret.deploymentStatus = "COMPLETED"
                            /\ aliases'[call.alias] = {call.target}
                       ELSE /\ call.ret.deploymentStatus = "READY_FOR_SWAP"
                            /\ call.ret.stagingIndex = call.target
                            /\ aliases'[call.alias] = call.alias0]_vars

\* The colour word this system put in the name of an index it created.
CreatedColor(name) == name.color

\* C11: a deploy on an alias whose active index was created by this system with
\* colour c (by deploy, by initializeBlueGreenDeployment or by a batch session)
\* stages the opposite colour, and a deploy on an alias with no active index
\* stages blue.
DeployStagesOppositeColor ==
    [][ \A c \in CallIds :
          (calls[c].pc = "deploy_status" /\ calls'[c].pc = "deploy_create")
          => IF aliases[calls[c].alias] = {}
               THEN calls'[c].color = "blue"
               ELSE \A i \in aliases[calls[c].alias] :
                       calls'[c].color = NextColor(CreatedColor(i)) ]_vars

\* C12: a session that startBatchSession creates has targetColor green when the
\* alias was bound to a blue index as the session started, blue when it was
\* bound to a green index, and blue when it was bound to no index; the target
\* colour never equals the colour of the bound index.
SessionTargetsOppositeColor ==
    [][ \A c \in CallIds :
          (calls[c].pc = "start_create" /\ calls'[c].outcome = "ok")
          => LET session == sess'[calls[c].sid]
                 bound   == calls[c].alias0
             IN  IF bound = {}
                   THEN session.targetColor = "blue"
                   ELSE \A i \in bound :
                           session.targetColor = NextColor(CreatedColor(i)) ]_vars

\* The call before the one in slot c ran swapAlias (directly or as the last step
\* of an AUTO_SWAP deploy), returned, and its alias update was acknowledged.
PrecededBySwap(c) ==
    LET before == calls[PreviousSlot(c)]
    IN  /\ before.pc = "done" /\ before.outcome = "ok" /\ before.err = "none"
        /\ before.alias = calls[c].alias
        /\ \/ before.op = "swapAlias"
           \/ before.op = "deploy" /\ DeployUsesSwap(before.strategy)

\* The call in slot c returns in this step with its alias update acknowledged.
ReturnsAcknowledged(c) ==
    Finishes(c) /\ calls'[c].outcome = "ok" /\ calls'[c].err = "none"

\* C13: when swapAlias(alias, c) succeeded and the very next call is a
\* rollback(alias) that succeeds, the alias is bound to exactly the index it
\* was bound to just before that swapAlias.
RollbackUndoesSwap ==
    [][ \A c \in CallIds :
          (calls[c].op = "rollback" /\ ReturnsAcknowledged(c) /\ PrecededBySwap(c))
          => aliases'[calls[c].alias] = calls[PreviousSlot(c)].alias0 ]_vars

\* The call before the one in slot c was a direct swapAlias(alias, color) that
\* returned with its alias update acknowledged, on an alias with one active index.
PrecededBySwapTo(c, color) ==
    LET before == calls[PreviousSlot(c)]
    IN  /\ before.pc = "done" /\ before.outcome = "ok" /\ before.err = "none"
        /\ before.op = "swapAlias" /\ before.color = color
        /\ before.alias = calls[c].alias
        /\ Cardinality(before.alias0) = 1

\* C14: with an active index A, when swapAlias(alias, c) and then
\* swapAlias(alias, opposite(c)) both succeed with no operation in between, the
\* alias is again bound to exactly A.
SwapThereAndBack ==
    [][ \A c \in CallIds :
          (/\ calls[c].op = "swapAlias"
           /\ ReturnsAcknowledged(c)
           /\ PrecededBySwapTo(c, NextColor(calls[c].color)))
          => aliases'[calls[c].alias] = calls[PreviousSlot(c)].alias0 ]_vars

\* C15: cleanup(alias) never deletes an index while the alias is bound to it,
\* also when swapAlias, rollback or a promotion runs between cleanup's status
\* read and its deletes.
CleanupSparesActiveIndex ==
    [][ \A c \in CallIds :
          (calls[c].pc = "cleanup_delete" /\ calls'[c] # calls[c])
          => \A n \in indices \ indices' : n \notin aliases[calls[c].alias] ]_vars

\* C16: when the cluster does not acknowledge an alias update, swapAlias and
\* rollback fail with an error, and a deployNewIndex with AUTO_SWAP never
\* returns COMPLETED with activeIndex the new index while the alias is not
\* bound to that index.
UnacknowledgedUpdateFails ==
    [][ \A c \in CallIds :
          Finishes(c) =>
            /\ calls'[c].err = "unacknowledged" => calls'[c].outcome = "error"
            /\ ( /\ calls'[c].op = "deploy"
                 /\ calls'[c].outcome = "ok"
                 /\ calls'[c].ret.deploymentStatus = "COMPLETED" )
               => aliases'[calls'[c].alias] = {calls'[c].ret.activeIndex} ]_vars

\* C17: when deployNewIndex fails at any step (index creation, ingest, the
\* wait for readiness, health validation or the inline swap), the alias is
\* bound to exactly the indices it was bound to when the deploy started.
FailedDeployKeepsAlias ==
    \A c \in CallIds :
        ( /\ calls[c].op = "deploy" /\ calls[c].pc = "done"
          /\ calls[c].outcome = "error" )
        => aliases[calls[c].alias] = calls[c].alias0

\* An AUTO_SWAP deploy on a bound alias failed in its inline swap, after the
\* new index had been created.
DeployFailedInSwap ==
    \E c \in CallIds :
        /\ calls[c].op = "deploy" /\ calls[c].pc = "done"
        /\ calls[c].outcome = "error" /\ calls[c].failedAt = "swap"
        /\ calls[c].alias0 # {}
        /\ calls[c].target \in indices

\* A run of the expiry sweep: the only step that takes sessions out of the map.
SweepRuns == sessMap' # sessMap /\ sessMap' \subseteq sessMap

\* C18: the expiry sweep removes a session and marks it expired exactly when
\* the session has been idle for longer than sessionTimeout and its status is
\* active; completed and failed sessions keep their status.
SweepExpiresOnlyIdleActive ==
    [][ SweepRuns =>
          \A s \in sessMap :
            /\ (s \notin sessMap' /\ sess'[s].status = "expired")
                 <=> (Expirable(sess[s], now) /\ sess[s].status = "active")
            /\ sess[s].status \in {"completed", "failed"}
                 => sess'[s].status = sess[s].status ]_vars

CancelDeletesTarget ==
    [][ \A c \in CallIds :
          (calls[c].op = "cancel" /\ Finishes(c) /\ calls'[c].outcome = "ok")
          => /\ sess'[calls[c].sid].targetIndex \notin indices'
             /\ sess'[calls[c].sid].status = "failed" ]_vars

\* A session with processed batches was cancelled: its target index, which
\* existed when the cancel started, is gone and its status is failed.
CancelledAfterBatches ==
    \E c \in CallIds :
        /\ calls[c].op = "cancel" /\ calls[c].pc = "done" /\ calls[c].outcome = "ok"
        /\ sess[calls[c].sid].totalBatches > 0
        /\ sess[calls[c].sid].targetIndex \in calls[c].indices0
        /\ sess[calls[c].sid].targetIndex \notin indices
        /\ sess[calls[c].sid].status = "failed"

\* Every deployment state that can be derived for the alias lacks a staging
\* index of the given colour.
NoStagingOfColor(alias, color) ==
    \A st \in GetDeploymentStatus(alias) :
        st.stagingIndex = NoIndex \/ st.stagingColor # color

\* C21: swapAlias(alias, targetColor) fails with an error and leaves the alias
\* binding unchanged whenever the derived deployment state has no staging
\* index or a staging index whose colour differs from targetColor.
SwapRejectedWithoutStaging ==
    [][ \A c \in CallIds :
          ( /\ calls[c].pc = "mgr_swap_status"
            /\ calls'[c] # calls[c]
            /\ NoStagingOfColor(calls[c].alias, calls[c].color) )
          => /\ calls'[c].pc = "done" /\ calls'[c].outcome = "error"
             /\ aliases' = aliases
             /\ aliases'[calls[c].alias] = calls[c].alias0 ]_vars

\* A direct swapAlias on a bound alias was rejected because the staging index
\* has the other colour.
SwapRejectedForColor ==
    \E c \in CallIds :
        /\ calls[c].op = "swapAlias" /\ calls[c].pc = "done"
        /\ calls[c].outcome = "error" /\ calls[c].err = "color_mismatch"
        /\ calls[c].alias0 # {}
        /\ aliases[calls[c].alias] = calls[c].alias0

\* The alias has no active index, or no index of the alias has the colour
\* opposite to that of an active index.
NothingToRollBackTo(alias, active) ==
    \/ active = {}
    \/ \E a \in active :
          ~ \E n \in indices : n.alias = alias /\ n.color = NextColor(CreatedColor(a))

\* C22: rollback(alias) fails with an error and leaves the alias binding
\* unchanged when the alias has no active index, and when no index of the
\* colour opposite to the active index's colour exists for the alias.
RollbackRejectedWithoutPrevious ==
    [][ \A c \in CallIds :
          ( /\ calls[c].op = "rollback"
            /\ Finishes(c)
            /\ NothingToRollBackTo(calls[c].alias, calls[c].alias0) )
          => /\ calls'[c].outcome = "error"
             /\ aliases'[calls[c].alias] = calls[c].alias0 ]_vars

\* A completeBatchSession request arrives in slot c.
EntersComplete(c) ==
    /\ ~InProgress(c)
    /\ calls'[c] # calls[c]
    /\ calls'[c].op = "complete"

EntersProcessRoute(c) ==
    /\ ~InProgress(c)
    /\ calls'[c] # calls[c]
    /\ calls'[c].op \in {"processRoute", "processBatch"}

\* C24: the process route hands every batch of 1 to 1000 documents to the
\* session manager and answers 400 for an empty batch and for every batch of
\* more than 1000 documents; a rejected request reaches neither the session
\* manager nor the cluster, so sessions and indices are unchanged.
RouteLimitsBatchLength ==
    [][ \A c \in CallIds :
          EntersProcessRoute(c) =>
            IF calls'[c].op = "processRoute"
              THEN /\ calls'[c].count \notin 1..MaxProductsPerBatch
                   /\ calls'[c].pc = "done"
                   /\ ProcessRouteStatus(calls'[c]) = 400
                   /\ sess' = sess /\ sessMap' = sessMap
                   /\ indices' = indices /\ indexDocs' = indexDocs
                   /\ aliases' = aliases
              ELSE Len(calls'[c].docs) \in 1..MaxProductsPerBatch ]_vars

\* A batch of 1001 documents sent to an active session with processed batches
\* was answered 400.
OversizedBatchRejected ==
    \E c \in CallIds :
        /\ calls[c].op = "processRoute" /\ calls[c].pc = "done"
        /\ calls[c].count = MaxProductsPerBatch + 1
        /\ ProcessRouteStatus(calls[c]) = 400
        /\ calls[c].sid \in sessMap
        /\ sess[calls[c].sid].status = "active"
        /\ sess[calls[c].sid].totalBatches > 0

\* C25: the process endpoint answers an unknown or expired session id with
\* 404, a session that is not active with 400, an invalid argument (a batch
\* with duplicate document ids included) with 400, and only cluster or
\* transport failures with 500.
ProcessFailuresMapped ==
    [][ \A c \in CallIds :
          ( /\ calls'[c].op \in {"processRoute", "processBatch"}
            /\ calls'[c] # calls[c]
            /\ calls'[c].pc = "done" /\ calls'[c].outcome = "error" )
          => LET call == calls'[c] IN
             ProcessRouteStatus(call) =
                IF call.err = "not_found" THEN 404
                ELSE IF call.err \in {"not_active", "invalid_body", "duplicate_ids"} THEN 400
                ELSE 500 ]_vars


\* C26: when the bulk call of a processBatch throws, the call fails with the
\* error, exactly one entry with batchNumber = totalBatches + 1 is appended to
\* the session's errors, nothing else of the session changes (the five
\* counters, lastBatchAt and the status are as before, so an active session
\* stays active), and the session stays registered, so that a later
\* processBatch on it passes the lookup and the status check.
BulkFailureRecordedOnce ==
    [][ \A c \in CallIds :
          ( /\ calls[c].op = "processBatch" /\ calls[c].pc = "bulk"
            /\ calls'[c].pc = "done" /\ calls'[c].outcome = "error" )
          => LET sid    == calls[c].sid
                 before == sess[sid]
                 after  == sess'[sid]
             IN  /\ calls'[c].failedAt = "bulk"
                 /\ Len(after.errors) = Len(before.errors) + 1
                 /\ after.errors[Len(after.errors)].batchNumber = before.totalBatches + 1
                 /\ after = [before EXCEPT !.errors = after.errors]
                 /\ SubSeq(after.errors, 1, Len(before.errors)) = before.errors
                 /\ (before.status = "active" => after.status = "active")
                 /\ sessMap' = sessMap
                 /\ \A s \in DOMAIN sess : s # sid => sess'[s] = sess[s] ]_vars

\* A batch failed in its bulk call and a batch sent to the same session took
\* the batch number of the failed one and was indexed.
BatchAcceptedAfterBulkFailure ==
    \E c, d \in CallIds :
        /\ c # d
        /\ calls[c].op = "processBatch" /\ calls[c].pc = "done"
        /\ calls[c].failedAt = "bulk"
        /\ calls[d].op = "processBatch" /\ calls[d].pc = "done"
        /\ calls[d].outcome = "ok" /\ calls[d].sid = calls[c].sid
        /\ calls[d].ret.successful > 0
        /\ \E i \in 1..Len(sess[calls[c].sid].errors) :
              /\ sess[calls[c].sid].errors[i].kind = "batch"
              /\ sess[calls[c].sid].errors[i].batchNumber = calls[d].ret.batchNumber
        /\ sess[calls[c].sid].status = "active"


\* C27: when the bulk call answers, with or without failed items, processBatch
\* returns normally; successful is the number of items that carry no error and
\* have status 200 or 201, failed is the number of all other items, and the
\* two add up to the number of documents submitted; one entry per failed item
\* is appended to the session's errors and the session status is not changed.
ItemFailuresRecordedNotRaised ==
    [][ \A c \in CallIds :
          ( /\ calls[c].op = "processBatch" /\ calls[c].pc = "bulk"
            /\ calls'[c].pc = "done" /\ calls'[c].failedAt # "bulk" )
          => LET sid    == calls[c].sid
                 items  == calls'[c].resp
                 good   == {i \in 1..Len(items) :
                               items[i].status \in {200, 201} /\ ~items[i].error}
                 ret    == calls'[c].ret
             IN  /\ calls'[c].outcome = "ok"
                 /\ Len(items) = Len(calls[c].docs)
                 /\ ret.successful = Cardinality(good)
                 /\ ret.failed = Len(items) - Cardinality(good)
                 /\ ret.successful + ret.failed = Len(calls[c].docs)
                 /\ Len(sess'[sid].errors) = Len(sess[sid].errors) + ret.failed
                 /\ SubSeq(sess'[sid].errors, 1, Len(sess[sid].errors)) = sess[sid].errors
                 /\ \A i \in (Len(sess[sid].errors) + 1)..Len(sess'[sid].errors) :
                       sess'[sid].errors[i].kind \in {"item_error", "unexpected_status"}
                 /\ sess'[sid].status = sess[sid].status
                 /\ ret.sessionStatus = sess[sid].status ]_vars

\* A batch returned normally although one of its items was rejected and another
\* came back without a usable status.
BatchReturnedWithFailedItems ==
    \E c \in CallIds :
        /\ calls[c].op = "processBatch" /\ calls[c].pc = "done"
        /\ calls[c].outcome = "ok"
        /\ calls[c].ret.failed = 2
        /\ \E i, j \in 1..Len(calls[c].resp) :
              calls[c].resp[i].error /\ ~calls[c].resp[j].error
        /\ sess[calls[c].sid].status = "active"
        /\ Len(sess[calls[c].sid].errors) >= 2


\* C28: once a session has been completed with AUTO_SWAP (complete returned
\* COMPLETED), the document count of the index the alias is bound to equals
\* the number of distinct document ids sent in the session's batches minus the
\* session's failedDocuments.
ActiveCountMatchesSubmitted ==
    \A c \in CallIds :
        ( /\ calls[c].op = "complete" /\ calls[c].pc = "done"
          /\ calls[c].outcome = "ok"
          /\ calls[c].ret.deploymentStatus = "COMPLETED" )
        => LET session == sess[calls[c].sid] IN
           \A n \in aliases[session.alias] :
               CountOf(n) = Cardinality(session.submitted) - session.failedDocuments


Waiting(c) == calls[c].op = "waitReady" /\ InProgress(c)

WaitSucceeded(c) ==
    calls[c].op = "waitReady" /\ calls[c].pc = "done" /\ calls[c].outcome = "ok"

WaitTimedOut(c) ==
    /\ calls[c].op = "waitReady" /\ calls[c].pc = "done"
    /\ calls[c].outcome = "error" /\ calls[c].err = "timeout"

\* The index waited for is missing or holds fewer documents than expected.
CountBelow(c) ==
    /\ calls[c].expected # <<>>
    /\ \/ calls[c].target \notin indices
       \/ CountOf(calls[c].target) < calls[c].expected[1]

\* C29: waitForIndexReady always ends, with success or with the timeout error;
\* it returns success only in a tick in which the index exists, holds at least
\* expectedDocCount documents (when that is set) and the health request was
\* answered with a status other than red; its only failure is the timeout
\* error, raised when at least `timeout` milliseconds have passed since the
\* start; and while the count stays below expectedDocCount it does not return
\* success and ends with the timeout error.
WaitReadyEndsAndDecides ==
    /\ \A c \in CallIds : Waiting(c) ~> (WaitSucceeded(c) \/ WaitTimedOut(c))
    /\ [][ \A c \in CallIds :
             (Waiting(c) /\ calls'[c].pc = "done") =>
               /\ calls'[c].outcome = "ok" =>
                    /\ calls[c].target \in indices'
                    /\ calls[c].expected # <<>> =>
                          Cardinality(indexDocs'[calls[c].target]) >= calls[c].expected[1]
                    /\ calls'[c].health \in {"green", "yellow"}
               /\ calls'[c].outcome = "error" =>
                    /\ calls'[c].err = "timeout"
                    /\ now' - calls[c].ts >= calls[c].timeout ]_vars
    /\ \A c \in CallIds :
          (Waiting(c) /\ CountBelow(c)) ~> (WaitTimedOut(c) \/ ~CountBelow(c))

\* A wait for two documents timed out after its deadline on an index that
\* exists and received one document meanwhile.
WaitTimedOutBelowCount ==
    \E c \in CallIds :
        /\ WaitTimedOut(c)
        /\ calls[c].timeout > 0 /\ now - calls[c].ts >= calls[c].timeout
        /\ calls[c].expected = <<2>>
        /\ calls[c].target \in indices
        /\ CountOf(calls[c].target) = 1


\* The indices getDeploymentStatus chooses the staging index from: those that
\* match `${alias}-*` and are not the active index.
StagingCandidates(alias, activeIndex) ==
    {n \in indices : MatchesAliasDash(n, alias) /\ n # activeIndex}

\* C30: getDeploymentStatus(alias) reports IDLE and no staging index exactly
\* when no index other than the active one matches the alias; otherwise it
\* reports READY_FOR_SWAP and its stagingIndex is the candidate created last
\* (no candidate has a later timestamp), whatever the colours.
StagingIsMostRecent ==
    \A a \in Aliases : \A st \in GetDeploymentStatus(a) :
        LET candidates == StagingCandidates(a, st.activeIndex) IN
        /\ st.deploymentStatus = "IDLE" <=> candidates = {}
        /\ candidates = {} => st.stagingIndex = NoIndex
        /\ candidates # {} =>
              /\ st.deploymentStatus = "READY_FOR_SWAP"
              /\ st.stagingIndex \in candidates
              /\ \A m \in candidates : m.ts <= st.stagingIndex.ts


\* C31: in every reachable state any two sessions whose status is active have
\* different targetIndex names.
ActiveSessionsHaveOwnIndex ==
    \A s, t \in SessionIds :
        (s # t /\ sess[s].status = "active" /\ sess[t].status = "active")
        => sess[s].targetIndex # sess[t].targetIndex


\* C32: whenever startBatchSession or deployNewIndex creates an index, its name
\* is lexicographically greater than the name of every index of the same
\* alias, naming scheme and colour that is already in the cluster.
LaterIndexHasGreaterName ==
    [][ \A n \in indices' \ indices : \A m \in indices :
          (m.alias = n.alias /\ m.sep = n.sep /\ m.color = n.color)
          => NameLess(m, n) ]_vars


\* C33: a cleanupOldIndex or a swapAliasAsync with deleteOldIndices that has
\* reached its delete loop returns normally, and only after every candidate
\* index has been attempted: a failed delete neither raises nor ends the loop.
DeleteFailuresAreSkipped ==
    [][ \A c \in CallIds :
          (Finishes(c) /\ calls[c].pc \in {"cleanup_delete", "swap_delete"})
          => /\ calls'[c].outcome = "ok"
             /\ Cardinality(calls[c].todo) <= 1 ]_vars


\* After exactly three invocations two batches were answered for one session:
\* the session was started first, the batch in slot c1 arrived second, and the
\* batch in slot c2 arrived last, while the one in c1 was still in flight.
AnsweredOutOfTurn(first, second) ==
    /\ ops = 3 /\ first = "c1" /\ second = "c2"
    /\ calls[first].op = "processBatch" /\ calls[second].op = "processBatch"
    /\ calls[first].sid = calls[second].sid
    /\ calls[first].pc = "done" /\ calls[second].pc = "done"
    /\ calls[first].outcome = "ok" /\ calls[second].outcome = "ok"

\* C34: of two processBatch calls on one session the one that arrived first
\* is returned the smaller batchNumber, whichever bulk call is answered first;
\* and the batchNumber of the error entry written for a call whose bulk call
\* failed is the number the call had on arrival (totalBatches + 1 then).
BatchNumbersFollowArrival ==
    /\ [](\A a, b \in CallIds :
            AnsweredOutOfTurn(a, b) => calls[a].ret.batchNumber < calls[b].ret.batchNumber)
    /\ [][ \A c \in CallIds :
             ( /\ calls[c].op = "processBatch" /\ calls[c].pc = "bulk"
               /\ calls'[c].pc = "done" /\ calls'[c].outcome = "error" )
             => LET errors == sess'[calls[c].sid].errors
                IN  errors[Len(errors)].batchNumber = calls[c].batchNo ]_vars


\* C35: in the batch client concurrentBatches is the number of batches sent to
\* the server and not yet answered, it never exceeds maxConcurrentBatches (3),
\* and it is 0 whenever no batch is awaiting its answer.
ClientConcurrencyBounded ==
    LET running == {k \in 1..MaxClientBatches : client.task[k] = "running"} IN
    /\ client.concurrentBatches = Cardinality(running)
    /\ client.concurrentBatches <= 3
    /\ (running = {}) => client.concurrentBatches = 0

\* Three batches are awaiting their answers, a fourth waits in its sleep loop,
\* and an earlier batch has already been answered.
ClientAtItsLimit ==
    /\ client.concurrentBatches = 3
    /\ \E k, j \in 1..MaxClientBatches :
          client.task[k] = "sleeping" /\ client.task[j] \in {"ok", "failed"}


\* The deployNewIndex in slot d created index n and has failed after that, or
\* has not yet passed its waitForIndexReady and validateIndexHealth.
NotValidatedBy(d, n) ==
    /\ calls[d].op = "deploy" /\ calls[d].target = n
    /\ \/ /\ calls[d].pc = "done" /\ calls[d].outcome = "error"
          /\ calls[d].failedAt \in {"ingest", "waitReady", "validate"}
       \/ calls[d].pc \in {"deploy_ingest", "deploy_wait", "deploy_validate"}

\* C36: no step binds an alias to an index that a failed deployNewIndex left in
\* the cluster, or that a deployNewIndex is still filling or has not yet found
\* ready and healthy.
AliasBoundOnlyToValidated ==
    [][ \A a \in Aliases : \A n \in aliases'[a] \ aliases[a] :
          \A d \in CallIds : ~NotValidatedBy(d, n) ]_vars


\* C39: when deployNewIndex calls on one alias overlap, the alias update of an
\* AUTO_SWAP deploy that returns COMPLETED binds the alias to the index that
\* call created, which is also the activeIndex of the state it returns.
OverlappingDeploysBindOwnIndex ==
    [][ \A c \in CallIds :
          ( /\ Finishes(c) /\ calls'[c].op = "deploy"
            /\ calls'[c].outcome = "ok" /\ calls'[c].err = "none"
            /\ calls'[c].ret.deploymentStatus = "COMPLETED" )
          => /\ calls'[c].ret.activeIndex = calls[c].target
             /\ aliases'[calls[c].alias] = {calls[c].target} ]_vars


\* C37: a session's status only changes from active to completed, failed or
\* expired (after the session was created as active); a completed, failed or
\* expired session keeps its status whatever runs afterwards.
StatusChangesOnlyFromActive ==
    [][ \A s \in SessionIds :
          sess'[s].status # sess[s].status =>
             \/ sess[s].status = "absent" /\ sess'[s].status = "active"
             \/ sess[s].status = "active" /\ sess'[s].status \in TerminalStatuses ]_vars


\* C38: once the expiry sweep has marked a session expired and removed it from
\* the session map, no step of a complete working for that session changes an
\* alias binding, also when the complete had passed its status check before
\* the sweep ran.
ExpiredSessionLeavesAliases ==
    [][ \A c \in CallIds :
          ( /\ InProgress(c) /\ calls[c].op = "complete"
            /\ calls[c].sid \in SessionIds \ sessMap
            /\ sess[calls[c].sid].status = "expired"
            /\ calls'[c] # calls[c] )
          => aliases' = aliases ]_vars


\* C40: the operations on alias "products" leave the indices of another alias
\* alone, also when that alias is "products-test": no swapAlias or rollback
\* takes such an index for the one to bind (the staging index that
\* getDeploymentStatus reports), the alias "products" is never bound to one,
\* and none is deleted.
OtherAliasIndicesUntouched ==
    /\ \A c \in CallIds : calls[c].staging.alias # OtherAlias
    /\ \A a \in Aliases : \A n \in aliases[a] : n.alias # OtherAlias
    /\ OtherIndices \subseteq indices

=============================================================================
